---------------------------- MODULE Spec2Model ----------------------------
(***************************************************************************)
(* The editor engine of dravi (src/src/main.rs): struct App, its key       *)
(* handlers, cursor motion with autoscroll and grid snap, the Bresenham    *)
(* rasterizer of continuous drawing, and the hex colour / coordinate       *)
(* parsers.                                                                *)
(*                                                                         *)
(* Representation.                                                         *)
(*  - An f64 is a fixed-point integer counting 1/Scale units (two decimal  *)
(*    digits), so 40.0 is 4000 and 1.5 is 150.                             *)
(*  - A String is a sequence of one-character strings.                     *)
(*  - canvas (Vec<Vec<Option<DrawChar>>>) is a function whose domain is    *)
(*    the set of cells <<x, y>> holding Some(glyph); a cell outside the    *)
(*    domain holds None.                                                   *)
(*  - A DrawChar is a tuple: <<"Point">>, ..., <<"Text", ch>>.             *)
(*  - A handler is an operator from an App record (and a key) to the App   *)
(*    record it leaves; an action delivers a run of key events (a single   *)
(*    key, an auto-repeated key, a typed token) to handle_key, one key     *)
(*    after the other.                                                     *)
(*  - What the handlers do outside the struct (the file drawing.typ, the   *)
(*    typst and viewer processes) is the record world; the handlers see it *)
(*    as one more field of the App record.                                 *)
(***************************************************************************)
EXTENDS Integers, Sequences, FiniteSets, TLC

VARIABLES
    mode, canvas, cursor_x, cursor_y, scroll_y, should_quit, current_char,
    current_color, color_input, continuous_draw, last_cursor_x,
    last_cursor_y, coordinate_system, show_axes, coordinate_input,
    origin_x, origin_y, grid_snap, text_buffer,
    world,      \* the file drawing.typ and the processes the handlers start
    event,      \* the last run of key events handed to handle_key: its key,
                \* its length and the fields before it
    nkeys,      \* how many more runs the session delivers
    line        \* draw_line_to_cursor's locals, when its loop is stepped

appvars == <<mode, canvas, cursor_x, cursor_y, scroll_y, should_quit,
             current_char, current_color, color_input, continuous_draw,
             last_cursor_x, last_cursor_y, coordinate_system, show_axes,
             coordinate_input, origin_x, origin_y, grid_snap, text_buffer,
             world>>

vars == <<appvars, event, nkeys, line>>

-----------------------------------------------------------------------------
(* Bounds of the model *)

\* runs of key events delivered in one session of Spec, the whole editor
MaxKeys == 2

\* runs delivered in one session of SpecScroll
MaxScrollKeys == 4

\* runs delivered in one session of SpecNav
MaxNavKeys == 3

\* runs delivered in one session of SpecSnap
MaxSnapKeys == 5

\* runs delivered in one session of SpecModes
MaxModeKeys == 4

\* runs delivered in one session of SpecGoto
MaxGotoKeys == 5

\* runs delivered in one session of SpecText
MaxTextKeys == 4

\* runs delivered in one session of SpecExport
MaxExportKeys == 4

\* runs delivered in one session of SpecBuffers
MaxBufferKeys == 4

\* runs delivered in one session of SpecPlace
MaxPlaceKeys == 4

\* runs delivered in one session of SpecParagraphs
MaxParagraphKeys == 4

\* runs delivered in one session of SpecCaps
MaxCapKeys == 5

\* runs delivered in one session of SpecJump
MaxJumpKeys == 5

\* SpecLine draws both endpoints from the cells (0..MaxCoord) x (0..MaxCoord)
MaxCoord == 4

\* the most digits before the decimal point of a typed coordinate
IntDigits == 4

-----------------------------------------------------------------------------
(* Program constants (App::new) *)

canvas_width == 80

canvas_height == 40

virtual_height == 200

\* fixed-point resolution of an f64: 1/Scale, two decimal digits
Scale == 10 * 10

F(n) == n * Scale

Max(a, b) == IF a >= b THEN a ELSE b

Min(a, b) == IF a <= b THEN a ELSE b

Abs(a) == IF a < 0 THEN -a ELSE a

\* f64::round: to the nearest integer, halves away from zero
Round(v) ==
    IF v >= 0 THEN ((v + Scale \div 2) \div Scale) * Scale
              ELSE -((((-v) + Scale \div 2) \div Scale) * Scale)

\* `v as usize` / `v as i32` of a non-negative f64: truncation (a negative
\* f64 saturates to 0 as usize and truncates toward zero as i32)
AsUsize(v) == IF v <= 0 THEN 0 ELSE v \div Scale

AsI32(v) == IF v >= 0 THEN v \div Scale ELSE -((-v) \div Scale)

\* f64::clamp(lo, hi)
Clamp(v, lo, hi) == IF v < lo THEN lo ELSE IF v > hi THEN hi ELSE v

IsInteger(v) == v % Scale = 0

-----------------------------------------------------------------------------
(* Characters *)

Digits == {"0", "1", "2", "3", "4", "5", "6", "7", "8", "9"}

HexUpper == {"A", "B", "C", "D", "E", "F"}

HexLower == {"a", "b", "c", "d", "e", "f"}

\* char::is_ascii_hexdigit
is_ascii_hexdigit(ch) == ch \in Digits \cup HexUpper \cup HexLower

\* char::to_ascii_uppercase, on the characters the model types
to_ascii_uppercase(ch) ==
    CASE ch = "a" -> "A" [] ch = "b" -> "B" [] ch = "c" -> "C"
      [] ch = "d" -> "D" [] ch = "e" -> "E" [] ch = "f" -> "F"
      [] OTHER -> ch

\* char::to_digit(16)
HexValue(ch) ==
    CASE ch = "0" -> 0 [] ch = "1" -> 1 [] ch = "2" -> 2 [] ch = "3" -> 3
      [] ch = "4" -> 4 [] ch = "5" -> 5 [] ch = "6" -> 6 [] ch = "7" -> 7
      [] ch = "8" -> 8 [] ch = "9" -> 9
      [] ch \in {"A", "a"} -> 10 [] ch \in {"B", "b"} -> 11
      [] ch \in {"C", "c"} -> 12 [] ch \in {"D", "d"} -> 13
      [] ch \in {"E", "e"} -> 14 [] ch \in {"F", "f"} -> 15

\* the characters KeyCode::Char can carry that char::is_control holds of
ControlChars == {"NUL", "TAB"}

None == <<"None">>


-----------------------------------------------------------------------------
(* struct App *)

EmptyCanvas == [c \in {} |-> None]

\* the struct's fields as one record
App ==
    [mode |-> mode, canvas |-> canvas, cursor_x |-> cursor_x,
     cursor_y |-> cursor_y, scroll_y |-> scroll_y, should_quit |-> should_quit,
     current_char |-> current_char, current_color |-> current_color,
     color_input |-> color_input, continuous_draw |-> continuous_draw,
     last_cursor_x |-> last_cursor_x, last_cursor_y |-> last_cursor_y,
     coordinate_system |-> coordinate_system, show_axes |-> show_axes,
     coordinate_input |-> coordinate_input, origin_x |-> origin_x,
     origin_y |-> origin_y, grid_snap |-> grid_snap,
     text_buffer |-> text_buffer, world |-> world]

\* the fields after a handler has left the record a
Becomes(a) ==
    /\ mode' = a.mode
    /\ canvas' = a.canvas
    /\ cursor_x' = a.cursor_x
    /\ cursor_y' = a.cursor_y
    /\ scroll_y' = a.scroll_y
    /\ should_quit' = a.should_quit
    /\ current_char' = a.current_char
    /\ current_color' = a.current_color
    /\ color_input' = a.color_input
    /\ continuous_draw' = a.continuous_draw
    /\ last_cursor_x' = a.last_cursor_x
    /\ last_cursor_y' = a.last_cursor_y
    /\ coordinate_system' = a.coordinate_system
    /\ show_axes' = a.show_axes
    /\ coordinate_input' = a.coordinate_input
    /\ origin_x' = a.origin_x
    /\ origin_y' = a.origin_y
    /\ grid_snap' = a.grid_snap
    /\ text_buffer' = a.text_buffer
    /\ world' = a.world

\* the rows of the keyboard grid
KeyboardRows ==
    << <<"q", "w", "e", "r", "t", "y", "u", "i", "o", "p">>,
       <<"a", "s", "d", "f", "g", "h", "j", "k", "l", ";">>,
       <<"z", "x", "c", "v", "b", "n", "m", ",", ".", "/">> >>

GridKeys == {KeyboardRows[r][c] : r \in 1..3, c \in 1..10}

\* keyboard_grid: ch -> (col_idx * 8, row_idx * 13), indices from 0
keyboard_grid ==
    [ch \in GridKeys |->
        LET row_idx == CHOOSE r \in 1..3 :
                           \E c \in 1..10 : KeyboardRows[r][c] = ch
            col_idx == CHOOSE c \in 1..10 : KeyboardRows[row_idx][c] = ch
        IN  <<(col_idx - 1) * 8, (row_idx - 1) * 13>>]

\* the world when the editor starts: drawing.typ not written, no process
\* started, the editor ready for a key, and what the next calls will meet:
\* whether File::create succeeds, whether typst and a terminal can be spawned
NewWorld ==
    [file |-> None, opened |-> 0, compiler |-> "none", viewers |-> 0,
     pc |-> "ready",
     env |-> [create |-> TRUE, typst |-> TRUE, terminal |-> TRUE]]

\* App::new()
AppNew ==
    [mode |-> "Drawing", canvas |-> EmptyCanvas, cursor_x |-> F(40),
     cursor_y |-> F(20), scroll_y |-> 0, should_quit |-> FALSE,
     current_char |-> <<"Point">>, current_color |-> <<255, 105, 180>>,
     color_input |-> <<>>, continuous_draw |-> FALSE,
     last_cursor_x |-> F(40), last_cursor_y |-> F(20),
     coordinate_system |-> "Cartesian", show_axes |-> TRUE,
     coordinate_input |-> <<>>, origin_x |-> F(40), origin_y |-> F(20),
     grid_snap |-> FALSE, text_buffer |-> <<>>, world |-> NewWorld]

-----------------------------------------------------------------------------
(* The canvas *)

\* canvas[y][x]
Cell(cv, x, y) == IF <<x, y>> \in DOMAIN cv THEN cv[<<x, y>>] ELSE None

\* canvas[y][x] = Some(g)
SetCell(cv, x, y, g) ==
    [c \in DOMAIN cv \cup {<<x, y>>} |-> IF c = <<x, y>> THEN g ELSE cv[c]]

\* canvas[y][x] = None
ClearCell(cv, x, y) == [c \in DOMAIN cv \ {<<x, y>>} |-> cv[c]]

\* draw_char: the current glyph at the cursor cell
draw_char(a) ==
    LET x == AsUsize(a.cursor_x)
        y == AsUsize(a.cursor_y)
    IN  IF x < canvas_width /\ y < virtual_height
        THEN [a EXCEPT !.canvas = SetCell(a.canvas, x, y, a.current_char)]
        ELSE a

clear_canvas(a) == [a EXCEPT !.canvas = EmptyCanvas]

-----------------------------------------------------------------------------
(* draw_line_to_cursor: Bresenham's line algorithm *)

\* LineLocals with the start column rounded where the end is truncated
LineLocals_RoundedStart(lx, ly, cx, cy) ==
    LET x0 == Round(lx) \div Scale
        y0 == AsI32(ly)
        x1 == AsI32(cx)
        y1 == AsI32(cy)
        dx == Abs(x1 - x0)
        dy == -Abs(y1 - y0)
    IN  [x0 |-> x0, y0 |-> y0, x1 |-> x1, y1 |-> y1, dx |-> dx, dy |-> dy,
         sx |-> IF x0 < x1 THEN 1 ELSE -1, sy |-> IF y0 < y1 THEN 1 ELSE -1,
         err |-> dx + dy, x |-> x0, y |-> y0]

\* the locals before the loop: the endpoints truncated, dx, dy, sx, sy, err
LineLocals(lx, ly, cx, cy) ==
    LET x0 == AsI32(lx)
        y0 == AsI32(ly)
        x1 == AsI32(cx)
        y1 == AsI32(cy)
        dx == Abs(x1 - x0)
        dy == -Abs(y1 - y0)
    IN  [x0 |-> x0, y0 |-> y0, x1 |-> x1, y1 |-> y1, dx |-> dx, dy |-> dy,
         sx |-> IF x0 < x1 THEN 1 ELSE -1, sy |-> IF y0 < y1 THEN 1 ELSE -1,
         err |-> dx + dy, x |-> x0, y |-> y0]

\* Plot with a strict lower bound on the column
Plot_StrictColumn(cv, x, y, g) ==
    IF x > 0 /\ x < canvas_width /\ y >= 0 /\ y < virtual_height
    THEN SetCell(cv, x, y, g)
    ELSE cv

\* the write that opens an iteration, skipped off the canvas
Plot(cv, x, y, g) ==
    IF x >= 0 /\ x < canvas_width /\ y >= 0 /\ y < virtual_height
    THEN SetCell(cv, x, y, g)
    ELSE cv

\* the loop's exit test
LineDone(l) == l.x = l.x1 /\ l.y = l.y1

\* LineStep that steps along one axis in an iteration, never along both
LineStep_OneAxis(l) ==
    LET e2 == 2 * l.err
    IN  IF e2 >= l.dy
        THEN [l EXCEPT !.err = l.err + l.dy, !.x = l.x + l.sx]
        ELSE IF e2 <= l.dx
        THEN [l EXCEPT !.err = l.err + l.dx, !.y = l.y + l.sy]
        ELSE l

\* the rest of an iteration: both tests read e2, the second the new err
LineStep(l) ==
    LET e2 == 2 * l.err
        l1 == IF e2 >= l.dy
              THEN [l EXCEPT !.err = l.err + l.dy, !.x = l.x + l.sx]
              ELSE l
    IN  IF e2 <= l.dx
        THEN [l1 EXCEPT !.err = l1.err + l.dx, !.y = l1.y + l.sy]
        ELSE l1

RECURSIVE LineLoop(_, _, _)
LineLoop(cv, l, g) ==
    LET cv1 == Plot(cv, l.x, l.y, g)
    IN  IF LineDone(l) THEN cv1 ELSE LineLoop(cv1, LineStep(l), g)

\* the cells the loop visits from l on, in order
RECURSIVE LinePath(_)
LinePath(l) ==
    IF LineDone(l) THEN << <<l.x, l.y>> >>
    ELSE << <<l.x, l.y>> >> \o LinePath(LineStep(l))

draw_line_to_cursor(a) ==
    [a EXCEPT !.canvas =
        LineLoop(a.canvas,
                 LineLocals(a.last_cursor_x, a.last_cursor_y,
                            a.cursor_x, a.cursor_y),
                 a.current_char)]

-----------------------------------------------------------------------------
(* Cursor motion and scrolling *)

\* usize::saturating_sub
saturating_sub(a, b) == IF a >= b THEN a - b ELSE 0

\* AutoScroll without the branch for a row below the window
AutoScroll_UpOnly(scroll, row) ==
    LET visible_start == scroll
    IN  IF row < visible_start THEN Max(row, 0) ELSE scroll

\* the auto-scroll of move_cursor: the scroll offset that follows the row
AutoScroll(scroll, row) ==
    LET visible_start == scroll
        visible_end == scroll + canvas_height - 1
    IN  IF row < visible_start THEN Max(row, 0)
        ELSE IF row > visible_end
        THEN Min(saturating_sub(row + 1, canvas_height),
                 virtual_height - canvas_height)
        ELSE scroll

\* Snap that leaves the value as it is
Snap_Never(snap, v) == v

\* the grid snapping of move_cursor
Snap(snap, v) == IF snap THEN Round(v) ELSE v

\* Bound without the lower clamp
Bound_UpperOnly(v, limit) == Min(v, F(limit) - F(1))

\* the new cursor of move_cursor: .max(0.0).min(limit - 1.0)
Bound(v, limit) == Min(Max(v, 0), F(limit) - F(1))

\* move_cursor that keeps the remembered position it finds
move_cursor_StaleStart(a, dx, dy) ==
    LET new_x == Snap(a.grid_snap, a.cursor_x + dx)
        new_y == Snap(a.grid_snap, a.cursor_y + dy)
        cx == Bound(new_x, canvas_width)
        cy == Bound(new_y, virtual_height)
        a1 == [a EXCEPT !.cursor_x = cx,
                        !.cursor_y = cy,
                        !.scroll_y = AutoScroll(a.scroll_y, AsUsize(cy))]
    IN  IF a.continuous_draw THEN draw_line_to_cursor(a1) ELSE a1

move_cursor(a, dx, dy) ==
    LET new_x == Snap(a.grid_snap, a.cursor_x + dx)
        new_y == Snap(a.grid_snap, a.cursor_y + dy)
        cx == Bound(new_x, canvas_width)
        cy == Bound(new_y, virtual_height)
        a1 == [a EXCEPT !.last_cursor_x = a.cursor_x,
                        !.last_cursor_y = a.cursor_y,
                        !.cursor_x = cx,
                        !.cursor_y = cy,
                        !.scroll_y = AutoScroll(a.scroll_y, AsUsize(cy))]
    IN  IF a.continuous_draw THEN draw_line_to_cursor(a1) ELSE a1

\* scroll_up that takes the cursor along, into the last row of the window
scroll_up_TakesCursor(a) ==
    LET top == saturating_sub(a.scroll_y, 3)
    IN  [a EXCEPT !.scroll_y = top,
                  !.cursor_y = Min(@, F(top + canvas_height - 1))]

scroll_up(a) == [a EXCEPT !.scroll_y = saturating_sub(a.scroll_y, 3)]

\* scroll_down without the upper limit
scroll_down_Unlimited(a) == [a EXCEPT !.scroll_y = a.scroll_y + 3]

scroll_down(a) ==
    [a EXCEPT !.scroll_y =
        Min(a.scroll_y + 3, saturating_sub(virtual_height, canvas_height))]


-----------------------------------------------------------------------------
(* Colour input *)

\* u8::from_str_radix(s, 16) of a two-character slice: an optional '+' and
\* hex digits (two digits never overflow a u8)
from_str_radix(s) ==
    IF is_ascii_hexdigit(s[1]) /\ is_ascii_hexdigit(s[2])
    THEN [ok |-> TRUE, v |-> 16 * HexValue(s[1]) + HexValue(s[2])]
    ELSE IF s[1] = "+" /\ is_ascii_hexdigit(s[2])
    THEN [ok |-> TRUE, v |-> HexValue(s[2])]
    ELSE [ok |-> FALSE, v |-> 0]

\* parse_hex_color with the green slice taken one character early
parse_hex_color_ShiftedGreen(hex) ==
    IF Len(hex) # 6 THEN None
    ELSE LET r == from_str_radix(SubSeq(hex, 1, 2))
             g == from_str_radix(SubSeq(hex, 2, 3))
             b == from_str_radix(SubSeq(hex, 5, 6))
         IN  IF r.ok /\ g.ok /\ b.ok THEN <<r.v, g.v, b.v>> ELSE None

\* parse_hex_color: None, or Some(Color::Rgb(r, g, b)) as <<r, g, b>>
parse_hex_color(hex) ==
    IF Len(hex) # 6 THEN None
    ELSE LET r == from_str_radix(SubSeq(hex, 1, 2))
             g == from_str_radix(SubSeq(hex, 3, 4))
             b == from_str_radix(SubSeq(hex, 5, 6))
         IN  IF r.ok /\ g.ok /\ b.ok THEN <<r.v, g.v, b.v>> ELSE None

-----------------------------------------------------------------------------
(* Coordinate input *)

\* str::split(',')
RECURSIVE Split(_)
Split(s) ==
    IF \A i \in 1..Len(s) : s[i] # "," THEN <<s>>
    ELSE LET i == CHOOSE i \in 1..Len(s) :
                      s[i] = "," /\ \A j \in 1..(i - 1) : s[j] # ","
         IN  <<SubSeq(s, 1, i - 1)>> \o Split(SubSeq(s, i + 1, Len(s)))

\* str::trim
RECURSIVE Trim(_)
Trim(s) ==
    IF s = <<>> THEN s
    ELSE IF s[1] = " " THEN Trim(Tail(s))
    ELSE IF s[Len(s)] = " " THEN Trim(SubSeq(s, 1, Len(s) - 1))
    ELSE s

\* the value of a string of decimal digits
RECURSIVE DecValue(_)
DecValue(s) ==
    IF s = <<>> THEN 0
    ELSE 10 * DecValue(SubSeq(s, 1, Len(s) - 1)) + HexValue(s[Len(s)])

\* the digits after the point, in 1/Scale units (two digits)
FracValue(s) ==
    (IF Len(s) >= 1 THEN 10 * HexValue(s[1]) ELSE 0)
    + (IF Len(s) >= 2 THEN HexValue(s[2]) ELSE 0)

\* str::parse::<f64> of a token made of the characters the buffer admits:
\* an optional sign, digits with at most one point and at least one digit
ParseF64(tok) ==
    LET neg == tok # <<>> /\ tok[1] = "-"
        m == IF tok # <<>> /\ tok[1] \in {"-", "+"} THEN Tail(tok) ELSE tok
        points == {i \in 1..Len(m) : m[i] = "."}
        ok == /\ \A i \in 1..Len(m) : m[i] \in Digits \cup {"."}
              /\ Cardinality(points) <= 1
              /\ Len(m) > Cardinality(points)
        p == IF points = {} THEN Len(m) + 1 ELSE CHOOSE i \in points : TRUE
        mag == F(DecValue(SubSeq(m, 1, p - 1)))
               + FracValue(SubSeq(m, p + 1, Len(m)))
    IN  IF ok THEN [ok |-> TRUE, v |-> IF neg THEN -mag ELSE mag]
        ELSE [ok |-> FALSE, v |-> 0]

\* a token the fixed-point domain holds exactly: at most IntDigits digits
\* before the point and two after it
TokenInDomain(tok) ==
    LET t == Trim(tok)
        m == IF t # <<>> /\ t[1] \in {"-", "+"} THEN Tail(t) ELSE t
        points == {i \in 1..Len(m) : m[i] = "."}
        p == IF points = {} THEN Len(m) + 1 ELSE CHOOSE i \in points : TRUE
    IN  p - 1 <= IntDigits /\ Len(m) - p <= 2

BufferInDomain(buf) ==
    LET parts == Split(buf)
    IN  \A i \in 1..Len(parts) : TokenInDomain(parts[i])

\* theta.to_radians().cos() and .sin() at a whole number of quarter turns
QuarterTurn(theta) == theta % F(90) = 0

Cos(theta) ==
    LET q == (theta % F(360)) \div F(90)
    IN  CASE q = 0 -> 1 [] q = 1 -> 0 [] q = 2 -> -1 [] q = 3 -> 0

Sin(theta) ==
    LET q == (theta % F(360)) \div F(90)
    IN  CASE q = 0 -> 0 [] q = 1 -> 1 [] q = 2 -> 0 [] q = 3 -> -1

\* the cursor a successful parse leaves: both coordinates clamped
GoTo(a, x, y) ==
    [a EXCEPT !.cursor_x = Clamp(a.origin_x + x, 0, F(canvas_width) - F(1)),
              !.cursor_y = Clamp(a.origin_y - y, 0, F(canvas_height) - F(1))]

parse_and_move_to_coordinate(a) ==
    LET parts == Split(a.coordinate_input)
        p1 == ParseF64(Trim(parts[1]))
        p2 == ParseF64(Trim(parts[2]))
        p3 == ParseF64(Trim(parts[3]))
    IN  CASE a.coordinate_system = "Cartesian" ->
                IF Len(parts) >= 2 /\ p1.ok /\ p2.ok
                THEN GoTo(a, p1.v, p2.v)
                ELSE a
          [] a.coordinate_system = "Polar" ->
                IF Len(parts) >= 2 /\ p1.ok /\ p2.ok
                THEN GoTo(a, p1.v * Cos(p2.v), p1.v * Sin(p2.v))
                ELSE a
          [] a.coordinate_system = "Cylindrical" ->
                IF Len(parts) >= 3 /\ p1.ok /\ p2.ok /\ p3.ok
                THEN GoTo(a, p1.v * Cos(p2.v),
                          p1.v * Sin(p2.v) + p3.v \div 10)
                ELSE a

\* the buffers whose goto the model computes exactly: in the polar systems
\* an angle of whole quarter turns, and a z whose tenth has two decimals
GotoInDomain(a) ==
    LET parts == Split(a.coordinate_input)
        p2 == ParseF64(Trim(parts[2]))
        p3 == ParseF64(Trim(parts[3]))
    IN  /\ BufferInDomain(a.coordinate_input)
        /\ (a.coordinate_system # "Cartesian" /\ Len(parts) >= 2 /\ p2.ok)
               => QuarterTurn(p2.v)
        /\ (a.coordinate_system = "Cylindrical" /\ Len(parts) >= 3 /\ p3.ok)
               => p3.v % 10 = 0


\* the decimal digits of a natural number
RECURSIVE DecString(_)
DecString(n) ==
    LET d == <<"0", "1", "2", "3", "4", "5", "6", "7", "8", "9">>[(n % 10) + 1]
    IN  IF n < 10 THEN <<d>> ELSE Append(DecString(n \div 10), d)

\* format!("{:.1}", v): the sign, then the magnitude rounded to one decimal,
\* a tie to the even digit (the values of the domain are exact in binary
\* when they end in 25, 50 or 75 hundredths)
Format1(v) ==
    LET m == Abs(v)
        q == m \div 10
        r == m % 10
        t == IF r > 5 \/ (r = 5 /\ q % 2 = 1) THEN q + 1 ELSE q
    IN  (IF v < 0 THEN <<"-">> ELSE <<>>)
        \o DecString(t \div 10) \o <<".">> \o DecString(t % 10)

\* get_current_coordinates with flipped operands in rel_y
get_current_coordinates_NoFlip(a) ==
    LET rel_x == a.cursor_x - a.origin_x
        rel_y == a.cursor_y - a.origin_y
    IN  CASE a.coordinate_system = "Cartesian" ->
                <<"(">> \o Format1(rel_x) \o <<",", " ">> \o Format1(rel_y)
                \o <<")">>

\* get_current_coordinates, the Cartesian arm: the polar arms format square
\* roots and arc tangents, which the fixed-point domain does not hold
get_current_coordinates(a) ==
    LET rel_x == a.cursor_x - a.origin_x
        rel_y == a.origin_y - a.cursor_y
    IN  CASE a.coordinate_system = "Cartesian" ->
                <<"(">> \o Format1(rel_x) \o <<",", " ">> \o Format1(rel_y)
                \o <<")">>

-----------------------------------------------------------------------------
(* Export: the text save_typst writes, a sequence of lines *)

\* the six header lines, each held as one token
Header ==
    << <<"#set page(margin: 0.5in, fill: black)">>,
       <<"#set text(size: 12pt, fill: rgb(\"#ff69b4\"))">>,
       <<"#set par(leading: 0.6em)">>,
       <<>>,
       <<"= Mathematical Calculations">>,
       <<>> >>

\* the code fence: three backticks, BACKTICK standing for U+0060
Fence == <<"BACKTICK", "BACKTICK", "BACKTICK">>

\* the character a glyph is written as; BULLET stands for U+2022
DisplayChar(g) ==
    CASE g = <<"Point">> -> "BULLET"
      [] g = <<"Horizontal">> -> "-"
      [] g = <<"Vertical">> -> "|"
      [] g = <<"Cross">> -> "+"
      [] g = <<"DiagRight">> -> "/"
      [] g = <<"DiagLeft">> -> "\\"
      [] g[1] = "Text" -> g[2]

\* matches!(cell, Some(DrawChar::Text(_)))
IsText(g) == g[1] = "Text"

IsSome(g) == g # None

\* char::is_whitespace, of the characters a cell can hold
is_whitespace(ch) == ch = " "

\* trim_end that removes nothing
trim_end_Nothing(s) == s

\* str::trim_end
trim_end(s) ==
    LET keep == {i \in 1..Len(s) : ~is_whitespace(s[i])}
    IN  IF keep = {} THEN <<>>
        ELSE SubSeq(s, 1, CHOOSE i \in keep : \A j \in keep : j <= i)

\* str::contains(ch) and str::matches(ch).count()
Contains(s, ch) == \E i \in 1..Len(s) : s[i] = ch

Count(s, ch) == Cardinality({i \in 1..Len(s) : s[i] = ch})

\* a row of the canvas
RowCells(cv, y) == [i \in 1..canvas_width |-> Cell(cv, i - 1, y)]

HasText(row) == \E i \in 1..Len(row) : IsText(row[i])

\* has_text: some cell of some row holds a Text glyph
has_text(cv) == \E c \in DOMAIN cv : IsText(cv[c])

\* text_content of a row that holds text: up to the first Text glyph the
\* glyphs alone, from it on every cell, an empty one as a space
TextContent(row) ==
    LET first == CHOOSE i \in 1..Len(row) :
                     IsText(row[i]) /\ \A j \in 1..(i - 1) : ~IsText(row[j])
        before == SelectSeq(SubSeq(row, 1, first - 1), IsSome)
    IN  [i \in 1..Len(before) |-> DisplayChar(before[i])]
        \o [i \in 1..(Len(row) - first + 1) |->
               IF row[first + i - 1] = None THEN " "
               ELSE DisplayChar(row[first + i - 1])]

\* text_lines: the rows that hold text, trimmed at the end
text_lines(cv) ==
    LET rows == SelectSeq([y \in 1..virtual_height |-> RowCells(cv, y - 1)],
                          HasText)
    IN  [i \in 1..Len(rows) |-> trim_end(TextContent(rows[i]))]

\* the line a paragraph is written as
Paragraph(p) ==
    IF Contains(p, "$") THEN Trim(p)
    ELSE IF Count(p, "=") = 1
            /\ (Contains(p, "+") \/ Contains(p, "-") \/ Contains(p, "*")
                \/ Contains(p, "/"))
    THEN <<"$">> \o Trim(p)
    ELSE Trim(p)

\* the loop over text_lines from line i on with the paragraph so far, and
\* the final paragraph: the lines written
RECURSIVE JoinLines(_, _, _)
JoinLines(lines, i, paragraph) ==
    IF i > Len(lines)
    THEN IF paragraph # <<>> THEN <<Paragraph(paragraph)>> ELSE <<>>
    ELSE IF Trim(lines[i]) = <<>>
    THEN IF paragraph # <<>>
         THEN <<Paragraph(paragraph), <<>> >> \o JoinLines(lines, i + 1, <<>>)
         ELSE JoinLines(lines, i + 1, paragraph)
    ELSE JoinLines(lines, i + 1,
                   (IF paragraph # <<>> THEN Append(paragraph, " ")
                    ELSE paragraph) \o lines[i])

\* the rows of a drawing without text, trimmed at the end
PureLines(cv) ==
    [y \in 1..virtual_height |->
        trim_end([i \in 1..canvas_width |->
                     IF Cell(cv, i - 1, y - 1) = None THEN " "
                     ELSE DisplayChar(Cell(cv, i - 1, y - 1))])]

\* everything written to drawing.typ
TypText(cv) ==
    Header \o (IF has_text(cv) THEN JoinLines(text_lines(cv), 1, <<>>)
               ELSE <<Fence>> \o PureLines(cv) \o <<Fence>>)

-----------------------------------------------------------------------------
(* Key events *)

Char(ch) == [code |-> "Char", ch |-> ch]

Esc == [code |-> "Esc", ch |-> ""]

Enter == [code |-> "Enter", ch |-> ""]

Backspace == [code |-> "Backspace", ch |-> ""]

\* a key code no handler names
Tab == [code |-> "Tab", ch |-> ""]

IsChar(key, ch) == key.code = "Char" /\ key.ch = ch

\* String::pop
Pop(s) == IF s = <<>> THEN s ELSE SubSeq(s, 1, Len(s) - 1)

-----------------------------------------------------------------------------
(* The handlers *)

\* open_pdf: one more call, and a viewer running if a terminal spawns
open_pdf(a) ==
    [a EXCEPT !.world.opened = @ + 1,
              !.world.viewers = IF a.world.env.terminal THEN @ + 1 ELSE @]

\* the body of if let Ok(mut file) = File::create("drawing.typ")
write_typ(a) ==
    IF a.world.env.create
    THEN [a EXCEPT !.world.file = TypText(a.canvas)]
    ELSE a

\* Command::new("typst") ... .output(), its first half: the child is
\* spawned and the editor is inside output()
spawn_typst(a) ==
    [a EXCEPT !.world.compiler = "running", !.world.pc = "output"]

\* the typst child exits
typst_exit(a) == [a EXCEPT !.world.compiler = "done"]

\* output() returns once the child has exited
output_return(a) == [a EXCEPT !.world.pc = "ready"]

\* compile_to_pdf: output() runs typst to its end, or fails to spawn it
compile_to_pdf(a) ==
    IF a.world.env.typst
    THEN output_return(typst_exit(spawn_typst(a)))
    ELSE a

save_typst(a) == compile_to_pdf(write_typ(a))

handle_drawing_keys(a, key) ==
    CASE IsChar(key, "q") -> [a EXCEPT !.should_quit = TRUE]
      [] IsChar(key, "h") -> move_cursor(a, -F(1), 0)
      [] IsChar(key, "j") -> move_cursor(a, 0, F(1))
      [] IsChar(key, "k") -> move_cursor(a, 0, -F(1))
      [] IsChar(key, "l") -> move_cursor(a, F(1), 0)
      [] IsChar(key, "f") -> [a EXCEPT !.mode = "Selection"]
      [] IsChar(key, " ") -> draw_char(a)
      [] IsChar(key, "?") -> [a EXCEPT !.mode = "Settings"]
      [] IsChar(key, "c") -> clear_canvas(a)
      [] IsChar(key, "s") -> save_typst(a)
      [] IsChar(key, "x") -> [a EXCEPT !.mode = "ColorSelection"]
      [] IsChar(key, "d") ->
            [a EXCEPT !.continuous_draw = ~a.continuous_draw]
      [] IsChar(key, "a") -> [a EXCEPT !.show_axes = ~a.show_axes]
      [] IsChar(key, "g") -> [a EXCEPT !.mode = "CoordinateInput"]
      [] IsChar(key, "i") -> [a EXCEPT !.mode = "TypstInput"]
      [] IsChar(key, "n") -> [a EXCEPT !.grid_snap = ~a.grid_snap]
      [] IsChar(key, ".") -> [a EXCEPT !.current_char = <<"Point">>]
      [] IsChar(key, "-") -> [a EXCEPT !.current_char = <<"Horizontal">>]
      [] IsChar(key, "|") -> [a EXCEPT !.current_char = <<"Vertical">>]
      [] IsChar(key, "+") -> [a EXCEPT !.current_char = <<"Cross">>]
      [] IsChar(key, "/") -> [a EXCEPT !.current_char = <<"DiagRight">>]
      [] IsChar(key, "\\") -> [a EXCEPT !.current_char = <<"DiagLeft">>]
      [] IsChar(key, "1") -> [a EXCEPT !.coordinate_system = "Cartesian"]
      [] IsChar(key, "2") -> [a EXCEPT !.coordinate_system = "Polar"]
      [] IsChar(key, "3") -> [a EXCEPT !.coordinate_system = "Cylindrical"]
      [] IsChar(key, "o") ->
            [a EXCEPT !.origin_x = a.cursor_x, !.origin_y = a.cursor_y]
      [] IsChar(key, "J") -> scroll_down(a)
      [] IsChar(key, "K") -> scroll_up(a)
      [] IsChar(key, "r") -> [open_pdf(a) EXCEPT !.mode = "PdfRender"]
      [] OTHER -> a

\* handle_selection_keys that returns to Drawing on a key it does not know
handle_selection_keys_LeavesOnAnyKey(a, key) ==
    CASE key.code = "Esc" -> [a EXCEPT !.mode = "Drawing"]
      [] key.code = "Char" ->
            IF key.ch \in DOMAIN keyboard_grid
            THEN LET x == keyboard_grid[key.ch][1]
                     y == keyboard_grid[key.ch][2]
                 IN  [a EXCEPT
                        !.cursor_x = Min(F(x), F(canvas_width) - F(1)),
                        !.cursor_y = Min(F(y), F(canvas_height) - F(1)),
                        !.mode = "Drawing"]
            ELSE [a EXCEPT !.mode = "Drawing"]
      [] OTHER -> a

handle_selection_keys(a, key) ==
    CASE key.code = "Esc" -> [a EXCEPT !.mode = "Drawing"]
      [] key.code = "Char" ->
            IF key.ch \in DOMAIN keyboard_grid
            THEN LET x == keyboard_grid[key.ch][1]
                     y == keyboard_grid[key.ch][2]
                 IN  [a EXCEPT
                        !.cursor_x = Min(F(x), F(canvas_width) - F(1)),
                        !.cursor_y = Min(F(y), F(canvas_height) - F(1)),
                        !.mode = "Drawing"]
            ELSE a
      [] OTHER -> a

handle_color_selection_keys(a, key) ==
    CASE key.code = "Esc" ->
            [a EXCEPT !.mode = "Drawing", !.color_input = <<>>]
      [] key.code = "Enter" ->
            LET color == parse_hex_color(a.color_input)
            IN  [a EXCEPT
                   !.current_color = IF color # None THEN color ELSE @,
                   !.mode = "Drawing",
                   !.color_input = <<>>]
      [] key.code = "Backspace" -> [a EXCEPT !.color_input = Pop(@)]
      [] key.code = "Char" ->
            IF is_ascii_hexdigit(key.ch) /\ Len(a.color_input) < 6
            THEN [a EXCEPT
                    !.color_input = Append(@, to_ascii_uppercase(key.ch))]
            ELSE a
      [] OTHER -> a

\* handle_coordinate_input_keys that appends whatever the length is
handle_coordinate_input_keys_NoCap(a, key) ==
    CASE key.code = "Esc" ->
            [a EXCEPT !.mode = "Drawing", !.coordinate_input = <<>>]
      [] key.code = "Enter" ->
            [parse_and_move_to_coordinate(a) EXCEPT
                !.mode = "Drawing", !.coordinate_input = <<>>]
      [] key.code = "Backspace" -> [a EXCEPT !.coordinate_input = Pop(@)]
      [] key.code = "Char" ->
            IF key.ch \in Digits \cup {".", ",", " ", "-"}
            THEN [a EXCEPT !.coordinate_input = Append(@, key.ch)]
            ELSE a
      [] OTHER -> a

\* handle_coordinate_input_keys whose Enter leaves the buffer as it is
handle_coordinate_input_keys_KeepsBuffer(a, key) ==
    CASE key.code = "Esc" ->
            [a EXCEPT !.mode = "Drawing", !.coordinate_input = <<>>]
      [] key.code = "Enter" ->
            [parse_and_move_to_coordinate(a) EXCEPT !.mode = "Drawing"]
      [] key.code = "Backspace" -> [a EXCEPT !.coordinate_input = Pop(@)]
      [] key.code = "Char" ->
            IF /\ key.ch \in Digits \cup {".", ",", " ", "-"}
               /\ Len(a.coordinate_input) < 20
            THEN [a EXCEPT !.coordinate_input = Append(@, key.ch)]
            ELSE a
      [] OTHER -> a

handle_coordinate_input_keys(a, key) ==
    CASE key.code = "Esc" ->
            [a EXCEPT !.mode = "Drawing", !.coordinate_input = <<>>]
      [] key.code = "Enter" ->
            [parse_and_move_to_coordinate(a) EXCEPT
                !.mode = "Drawing", !.coordinate_input = <<>>]
      [] key.code = "Backspace" -> [a EXCEPT !.coordinate_input = Pop(@)]
      [] key.code = "Char" ->
            IF /\ key.ch \in Digits \cup {".", ",", " ", "-"}
               /\ Len(a.coordinate_input) < 20
            THEN [a EXCEPT !.coordinate_input = Append(@, key.ch)]
            ELSE a
      [] OTHER -> a

\* the loop of Enter: character i of the buffer at column cursor + i, the
\* column capped at the last one
RECURSIVE PlaceText(_, _, _, _, _)
PlaceText(cv, text, i, cx, cy) ==
    IF i > Len(text) THEN cv
    ELSE LET x == Min(cx + (i - 1), canvas_width - 1)
         IN  PlaceText(IF x < canvas_width /\ cy < virtual_height
                       THEN SetCell(cv, x, cy, <<"Text", text[i]>>)
                       ELSE cv,
                       text, i + 1, cx, cy)

\* Closer without the arm of the single quote
Closer_NoQuote(ch) ==
    CASE ch = "(" -> <<")">> [] ch = "[" -> <<"]">> [] ch = "{" -> <<"}">>
      [] ch = "$" -> <<"$">> [] ch = "\"" -> <<"\"">>
      [] OTHER -> <<>>

\* the closer typed after an opener
Closer(ch) ==
    CASE ch = "(" -> <<")">> [] ch = "[" -> <<"]">> [] ch = "{" -> <<"}">>
      [] ch = "$" -> <<"$">> [] ch = "\"" -> <<"\"">> [] ch = "'" -> <<"'">>
      [] OTHER -> <<>>

handle_typst_input_keys(a, key) ==
    CASE key.code = "Esc" ->
            [a EXCEPT !.mode = "Drawing", !.text_buffer = <<>>]
      [] key.code = "Enter" ->
            LET placed == [a EXCEPT !.canvas =
                              PlaceText(a.canvas, a.text_buffer, 1,
                                        AsUsize(a.cursor_x),
                                        AsUsize(a.cursor_y))]
                moved == move_cursor(placed, 0, F(1))
            IN  [moved EXCEPT !.cursor_x = moved.origin_x,
                              !.text_buffer = <<>>,
                              !.mode = "Drawing"]
      [] key.code = "Backspace" ->
            IF a.text_buffer # <<>>
            THEN [a EXCEPT !.text_buffer = Pop(@)]
            ELSE LET moved == move_cursor(a, -F(1), 0)
                     x == AsUsize(moved.cursor_x)
                     y == AsUsize(moved.cursor_y)
                 IN  IF x < canvas_width /\ y < virtual_height
                     THEN [moved EXCEPT !.canvas = ClearCell(@, x, y)]
                     ELSE moved
      [] key.code = "Char" ->
            IF key.ch \notin ControlChars
            THEN [a EXCEPT !.text_buffer = Append(@, key.ch) \o Closer(key.ch)]
            ELSE a
      [] OTHER -> a

\* handle_settings_keys with an arm that quits on 'q'
handle_settings_keys_Quits(a, key) ==
    CASE key.code = "Esc" \/ IsChar(key, "?") -> [a EXCEPT !.mode = "Drawing"]
      [] IsChar(key, "q") -> [a EXCEPT !.should_quit = TRUE]
      [] IsChar(key, "a") -> [a EXCEPT !.show_axes = ~a.show_axes]
      [] IsChar(key, "n") -> [a EXCEPT !.grid_snap = ~a.grid_snap]
      [] IsChar(key, "d") ->
            [a EXCEPT !.continuous_draw = ~a.continuous_draw]
      [] IsChar(key, "1") -> [a EXCEPT !.coordinate_system = "Cartesian"]
      [] IsChar(key, "2") -> [a EXCEPT !.coordinate_system = "Polar"]
      [] IsChar(key, "3") -> [a EXCEPT !.coordinate_system = "Cylindrical"]
      [] OTHER -> a

handle_settings_keys(a, key) ==
    CASE key.code = "Esc" \/ IsChar(key, "?") -> [a EXCEPT !.mode = "Drawing"]
      [] IsChar(key, "a") -> [a EXCEPT !.show_axes = ~a.show_axes]
      [] IsChar(key, "n") -> [a EXCEPT !.grid_snap = ~a.grid_snap]
      [] IsChar(key, "d") ->
            [a EXCEPT !.continuous_draw = ~a.continuous_draw]
      [] IsChar(key, "1") -> [a EXCEPT !.coordinate_system = "Cartesian"]
      [] IsChar(key, "2") -> [a EXCEPT !.coordinate_system = "Polar"]
      [] IsChar(key, "3") -> [a EXCEPT !.coordinate_system = "Cylindrical"]
      [] OTHER -> a

\* handle_pdf_render_keys whose 'r' opens the viewer again and stays
handle_pdf_render_keys_Reopen(a, key) ==
    CASE IsChar(key, "r") -> open_pdf(a)
      [] key.code = "Esc" -> [a EXCEPT !.mode = "Drawing"]
      [] OTHER -> a

\* handle_pdf_render_keys that closes on 'r' alone
handle_pdf_render_keys_NoEsc(a, key) ==
    CASE IsChar(key, "r") -> [a EXCEPT !.mode = "Drawing"]
      [] OTHER -> a

handle_pdf_render_keys(a, key) ==
    CASE key.code = "Esc" \/ IsChar(key, "r") -> [a EXCEPT !.mode = "Drawing"]
      [] OTHER -> a

handle_key(a, key) ==
    CASE a.mode = "Drawing" -> handle_drawing_keys(a, key)
      [] a.mode = "Selection" -> handle_selection_keys(a, key)
      [] a.mode = "ColorSelection" -> handle_color_selection_keys(a, key)
      [] a.mode = "CoordinateInput" -> handle_coordinate_input_keys(a, key)
      [] a.mode = "TypstInput" -> handle_typst_input_keys(a, key)
      [] a.mode = "Settings" -> handle_settings_keys(a, key)
      [] a.mode = "PdfRender" -> handle_pdf_render_keys(a, key)

\* run_app: keys i..j of a run go to handle_key one after the other, until
\* should_quit ends the loop (the run is halved so that a long run nests
\* only a few evaluations)
RECURSIVE handle_keys(_, _, _, _)
handle_keys(a, keys, i, j) ==
    IF a.should_quit \/ i > j THEN a
    ELSE IF i = j THEN handle_key(a, keys[i])
    ELSE LET mid == (i + j) \div 2
         IN  handle_keys(handle_keys(a, keys, i, mid), keys, mid + 1, j)

-----------------------------------------------------------------------------
(* The key events the model delivers *)

MoveKeys == {"h", "j", "k", "l"}

ScrollKeys == {"J", "K"}

\* a held movement key: the key and how often it repeats.  From App::new
\* each run takes the cursor to an edge of the canvas and one step further
MoveRuns == {<<"h", 41>>, <<"j", 180>>, <<"k", 21>>, <<"l", 40>>}

\* a held scroll key: J 54 times scrolls from the top past the last offset
ScrollRuns == {<<"J", 54>>, <<"K", 7>>}

\* key event n times
Rep(key, n) == [i \in 1..n |-> key]

\* the key events of a typed string
Typed(text) == [i \in 1..Len(text) |-> Char(text[i])]

GlyphKeys == {".", "-", "|", "+", "/", "\\"}

SystemKeys == {"1", "2", "3"}

\* the corners of the keyboard grid and a key in its middle
JumpKeys == {"q", "p", "z", "/", "g"}

\* what is typed into the colour buffer: hex digits of both cases, a full
\* colour, a character that is no hex digit
ColorRuns == {<<"1", "a">>, <<"1", "A", "2", "B", "3", "C">>, <<"g">>}

\* what is typed into the coordinate buffer
CoordinateRuns ==
    {<<"1", ".", "5", ",", "2", ".", "5">>, <<"3", ",", "4">>,
     <<"3", "8", ".", "5", ",", "-", "9", "9">>, <<",", "0">>, <<"x">>}

\* single keys typed into the colour buffer: a lower-case and a decimal hex
\* digit, a letter past F
ColorKeys == {"f", "0", "G"}

\* single keys typed into the coordinate buffer: a digit, a sign, a letter
CoordinateKeys == {"7", "-", "x"}

\* coordinate buffers for a goto: two tokens, a target below row H - 1, two
\* decimals, three tokens, one token, a token that is no number
GotoRuns ==
    {<<"3", ",", "4">>, <<"0", ",", "-", "3", "0">>,
     <<"1", ".", "2", "5", ",", "2">>, <<"2", ",", "9", "0", ",", "7">>,
     <<"5">>, <<"1", ",", "-">>}

\* what is typed into the text buffer
TypstRuns == {<<"a", "b">>, <<"(">>, <<"TAB">>}

\* single keys typed into the text buffer: the six openers, three other
\* characters and a control character
TypstKeys == {"(", "[", "{", "$", "\"", "'", "a", ")", "=", "TAB"}

\* strokes in Drawing mode: a Horizontal placed and a Vertical right of it,
\* a Point placed
StrokeRuns == {<<"-", " ", "l", "|", " ">>, <<".", " ">>}

\* rows of text: plain words, a row of one space, an equation, a row that
\* starts with '$' (the closer follows the opener), an equality without an
\* operator
WriteRuns ==
    {<<"a", "b">>, <<" ">>, <<"a", "=", "b", "+", "c">>, <<"$", "x">>,
     <<"a", "=", "b">>}

\* one run goes to the handlers of the editor a, while the session lasts
\* and the editor is not inside a call that waits
DeliverIn(a, keys) ==
    /\ ~should_quit
    /\ world.pc = "ready"
    /\ nkeys > 0
    /\ nkeys' = nkeys - 1
    /\ event' = [key |-> keys[1], n |-> Len(keys), before |-> a]
    /\ Becomes(handle_keys(a, keys, 1, Len(keys)))
    /\ UNCHANGED line

Deliver(keys) == DeliverIn(App, keys)

\* the editor with what its next calls will meet
Meets(create, typst, terminal) ==
    [App EXCEPT !.world.env =
        [create |-> create, typst |-> typst, terminal |-> terminal]]

-----------------------------------------------------------------------------
(* Actions: Drawing mode *)

DrawingMove ==
    /\ mode = "Drawing"
    /\ \E c \in MoveKeys : Deliver(<<Char(c)>>)

DrawingMoveHeld ==
    /\ mode = "Drawing"
    /\ \E r \in MoveRuns : Deliver(Rep(Char(r[1]), r[2]))

DrawingScroll ==
    /\ mode = "Drawing"
    /\ \E c \in ScrollKeys : Deliver(<<Char(c)>>)

DrawingScrollHeld ==
    /\ mode = "Drawing"
    /\ \E r \in ScrollRuns : Deliver(Rep(Char(r[1]), r[2]))

DrawingSelection ==
    /\ mode = "Drawing"
    /\ Deliver(<<Char("f")>>)

DrawingColor ==
    /\ mode = "Drawing"
    /\ Deliver(<<Char("x")>>)

DrawingCoordinate ==
    /\ mode = "Drawing"
    /\ Deliver(<<Char("g")>>)

DrawingTypst ==
    /\ mode = "Drawing"
    /\ Deliver(<<Char("i")>>)

DrawingSettings ==
    /\ mode = "Drawing"
    /\ Deliver(<<Char("?")>>)

DrawingPdf ==
    /\ mode = "Drawing"
    /\ \E terminal \in BOOLEAN :
          DeliverIn(Meets(TRUE, TRUE, terminal), <<Char("r")>>)

DrawingContinuous ==
    /\ mode = "Drawing"
    /\ Deliver(<<Char("d")>>)

DrawingSnap ==
    /\ mode = "Drawing"
    /\ Deliver(<<Char("n")>>)

DrawingAxes ==
    /\ mode = "Drawing"
    /\ Deliver(<<Char("a")>>)

DrawingPlace ==
    /\ mode = "Drawing"
    /\ Deliver(<<Char(" ")>>)

DrawingClear ==
    /\ mode = "Drawing"
    /\ Deliver(<<Char("c")>>)

DrawingGlyph ==
    /\ mode = "Drawing"
    /\ \E c \in GlyphKeys : Deliver(<<Char(c)>>)

DrawingSystem ==
    /\ mode = "Drawing"
    /\ \E c \in SystemKeys : Deliver(<<Char(c)>>)

DrawingOrigin ==
    /\ mode = "Drawing"
    /\ Deliver(<<Char("o")>>)

DrawingQuit ==
    /\ mode = "Drawing"
    /\ Deliver(<<Char("q")>>)

DrawingSave ==
    /\ mode = "Drawing"
    /\ \E create \in BOOLEAN, typst \in BOOLEAN :
          DeliverIn(Meets(create, typst, TRUE), <<Char("s")>>)

\* a row of text written: 'i', the text and Enter in one run
DrawingWrite ==
    /\ mode = "Drawing"
    /\ \E text \in WriteRuns :
          Deliver(<<Char("i")>> \o Typed(text) \o <<Enter>>)

\* a stroke: glyph keys, the place key and movement keys in one run
DrawingStroke ==
    /\ mode = "Drawing"
    /\ \E keys \in StrokeRuns : Deliver(Typed(keys))

\* 's' up to the call of output() in compile_to_pdf: the file is written
\* and, where typst spawns, the editor waits inside output()
SaveWrite ==
    /\ mode = "Drawing"
    /\ ~should_quit
    /\ world.pc = "ready"
    /\ nkeys > 0
    /\ nkeys' = nkeys - 1
    /\ \E create \in BOOLEAN, typst \in BOOLEAN :
          LET a == Meets(create, typst, TRUE)
          IN  /\ event' = [key |-> Char("s"), n |-> 1, before |-> a]
              /\ Becomes(IF typst THEN spawn_typst(write_typ(a))
                         ELSE write_typ(a))
    /\ UNCHANGED line

\* the typst process exits
CompilerExit ==
    /\ world.compiler = "running"
    /\ Becomes(typst_exit(App))
    /\ UNCHANGED <<event, nkeys, line>>

\* output() returns and with it compile_to_pdf, save_typst and handle_key
SaveReturn ==
    /\ world.pc = "output"
    /\ world.compiler = "done"
    /\ Becomes(output_return(App))
    /\ UNCHANGED <<event, nkeys, line>>

\* a viewer process exits
ViewerExit ==
    /\ world.viewers > 0
    /\ Becomes([App EXCEPT !.world.viewers = @ - 1])
    /\ UNCHANGED <<event, nkeys, line>>

DrawingOther ==
    /\ mode = "Drawing"
    /\ \E key \in {Char("z"), Esc, Enter, Backspace, Tab} : Deliver(<<key>>)

-----------------------------------------------------------------------------
(* Actions: Selection mode *)

SelectionEsc ==
    /\ mode = "Selection"
    /\ Deliver(<<Esc>>)

SelectionJump ==
    /\ mode = "Selection"
    /\ \E c \in JumpKeys : Deliver(<<Char(c)>>)

SelectionOther ==
    /\ mode = "Selection"
    /\ \E key \in {Char("1"), Enter, Tab} : Deliver(<<key>>)

-----------------------------------------------------------------------------
(* Actions: ColorSelection mode *)

ColorEsc ==
    /\ mode = "ColorSelection"
    /\ Deliver(<<Esc>>)

ColorEnter ==
    /\ mode = "ColorSelection"
    /\ Deliver(<<Enter>>)

ColorBackspace ==
    /\ mode = "ColorSelection"
    /\ Deliver(<<Backspace>>)

ColorChar ==
    /\ mode = "ColorSelection"
    /\ \E text \in ColorRuns : Deliver(Typed(text))

\* one character typed
ColorKey ==
    /\ mode = "ColorSelection"
    /\ \E ch \in ColorKeys : Deliver(<<Char(ch)>>)

ColorOther ==
    /\ mode = "ColorSelection"
    /\ Deliver(<<Tab>>)

-----------------------------------------------------------------------------
(* Actions: CoordinateInput mode *)

CoordinateEsc ==
    /\ mode = "CoordinateInput"
    /\ Deliver(<<Esc>>)

CoordinateEnter ==
    /\ mode = "CoordinateInput"
    /\ GotoInDomain(App)
    /\ Deliver(<<Enter>>)

CoordinateBackspace ==
    /\ mode = "CoordinateInput"
    /\ Deliver(<<Backspace>>)

CoordinateChar ==
    /\ mode = "CoordinateInput"
    /\ \E text \in CoordinateRuns : Deliver(Typed(text))

\* a whole coordinate buffer typed at once
CoordinateType ==
    /\ mode = "CoordinateInput"
    /\ \E text \in GotoRuns : Deliver(Typed(text))

\* one character typed
CoordinateKey ==
    /\ mode = "CoordinateInput"
    /\ \E ch \in CoordinateKeys : Deliver(<<Char(ch)>>)

CoordinateOther ==
    /\ mode = "CoordinateInput"
    /\ Deliver(<<Tab>>)

-----------------------------------------------------------------------------
(* Actions: TypstInput mode *)

TypstEsc ==
    /\ mode = "TypstInput"
    /\ Deliver(<<Esc>>)

TypstEnter ==
    /\ mode = "TypstInput"
    /\ Deliver(<<Enter>>)

TypstBackspace ==
    /\ mode = "TypstInput"
    /\ Deliver(<<Backspace>>)

TypstChar ==
    /\ mode = "TypstInput"
    /\ \E text \in TypstRuns : Deliver(Typed(text))

\* one character typed
TypstKey ==
    /\ mode = "TypstInput"
    /\ \E ch \in TypstKeys : Deliver(<<Char(ch)>>)

TypstOther ==
    /\ mode = "TypstInput"
    /\ Deliver(<<Tab>>)

-----------------------------------------------------------------------------
(* Actions: Settings mode *)

SettingsClose ==
    /\ mode = "Settings"
    /\ \E key \in {Esc, Char("?")} : Deliver(<<key>>)

SettingsToggle ==
    /\ mode = "Settings"
    /\ \E c \in {"a", "n", "d"} : Deliver(<<Char(c)>>)

SettingsSystem ==
    /\ mode = "Settings"
    /\ \E c \in SystemKeys : Deliver(<<Char(c)>>)

SettingsOther ==
    /\ mode = "Settings"
    /\ \E key \in {Char("q"), Enter, Tab} : Deliver(<<key>>)

-----------------------------------------------------------------------------
(* Actions: PdfRender mode *)

PdfClose ==
    /\ mode = "PdfRender"
    /\ \E key \in {Esc, Char("r")} : Deliver(<<key>>)

PdfOther ==
    /\ mode = "PdfRender"
    /\ \E key \in {Char("q"), Enter, Tab} : Deliver(<<key>>)

-----------------------------------------------------------------------------
(* Actions: the quit key outside Drawing mode *)

\* 'q' in a mode other than Drawing
ElsewhereQuitKey ==
    /\ mode # "Drawing"
    /\ Deliver(<<Char("q")>>)

-----------------------------------------------------------------------------
(* The editor from App::new *)

NoEvent == [key |-> Tab, n |-> 0, before |-> AppNew]

NoLine ==
    [pc |-> "idle", x0 |-> 0, y0 |-> 0, x1 |-> 0, y1 |-> 0, dx |-> 0,
     dy |-> 0, sx |-> 0, sy |-> 0, err |-> 0, x |-> 0, y |-> 0,
     path |-> <<>>]

\* main: App::new(), no key handled yet
InitApp ==
    /\ mode = AppNew.mode
    /\ canvas = AppNew.canvas
    /\ cursor_x = AppNew.cursor_x
    /\ cursor_y = AppNew.cursor_y
    /\ scroll_y = AppNew.scroll_y
    /\ should_quit = AppNew.should_quit
    /\ current_char = AppNew.current_char
    /\ current_color = AppNew.current_color
    /\ color_input = AppNew.color_input
    /\ continuous_draw = AppNew.continuous_draw
    /\ last_cursor_x = AppNew.last_cursor_x
    /\ last_cursor_y = AppNew.last_cursor_y
    /\ coordinate_system = AppNew.coordinate_system
    /\ show_axes = AppNew.show_axes
    /\ coordinate_input = AppNew.coordinate_input
    /\ origin_x = AppNew.origin_x
    /\ origin_y = AppNew.origin_y
    /\ grid_snap = AppNew.grid_snap
    /\ text_buffer = AppNew.text_buffer
    /\ world = AppNew.world
    /\ event = NoEvent
    /\ line = NoLine


\* every key of every mode
Init == InitApp /\ nkeys = MaxKeys

Next ==
    \/ DrawingMove \/ DrawingMoveHeld \/ DrawingScroll \/ DrawingScrollHeld
    \/ DrawingSelection \/ DrawingColor
    \/ DrawingCoordinate \/ DrawingTypst \/ DrawingSettings \/ DrawingPdf
    \/ DrawingContinuous \/ DrawingSnap \/ DrawingAxes \/ DrawingPlace
    \/ DrawingClear \/ DrawingGlyph \/ DrawingSystem \/ DrawingOrigin
    \/ DrawingQuit \/ DrawingSave \/ DrawingOther
    \/ SelectionEsc \/ SelectionJump \/ SelectionOther
    \/ ColorEsc \/ ColorEnter \/ ColorBackspace \/ ColorChar \/ ColorOther
    \/ CoordinateEsc \/ CoordinateEnter \/ CoordinateBackspace
    \/ CoordinateChar \/ CoordinateOther
    \/ TypstEsc \/ TypstEnter \/ TypstBackspace \/ TypstChar \/ TypstOther
    \/ SettingsClose \/ SettingsToggle \/ SettingsSystem \/ SettingsOther
    \/ PdfClose \/ PdfOther
    \/ ElsewhereQuitKey

Spec == Init /\ [][Next]_vars

\* moving and scrolling: the keys that call move_cursor, scroll_up and
\* scroll_down, and the grid snap they read
InitScroll == InitApp /\ nkeys = MaxScrollKeys

NextScroll ==
    \/ DrawingMove \/ DrawingMoveHeld \/ DrawingScroll \/ DrawingScrollHeld
    \/ DrawingSnap

SpecScroll == InitScroll /\ [][NextScroll]_vars

\* every key that moves the cursor, and the keys that set what they read
InitNav == InitApp /\ nkeys = MaxNavKeys

NextNav ==
    \/ DrawingMove \/ DrawingMoveHeld \/ DrawingScroll \/ DrawingScrollHeld
    \/ DrawingSnap \/ DrawingContinuous
    \/ DrawingOrigin
    \/ DrawingSelection \/ SelectionEsc \/ SelectionJump \/ SelectionOther
    \/ DrawingCoordinate \/ CoordinateChar \/ CoordinateEnter
    \/ DrawingTypst \/ TypstChar \/ TypstEnter \/ TypstBackspace

SpecNav == InitNav /\ [][NextNav]_vars

\* grid snap from a fractional cursor: a coordinate goto, then the snap
\* toggle and the movement keys
InitSnap == InitApp /\ nkeys = MaxSnapKeys

NextSnap ==
    \/ DrawingCoordinate \/ CoordinateChar \/ CoordinateEnter
    \/ DrawingSnap \/ DrawingMove

SpecSnap == InitSnap /\ [][NextSnap]_vars

\* the modes and their buffers: every key that enters a mode, types into
\* its buffer or leaves it
InitModes == InitApp /\ nkeys = MaxModeKeys

NextModes ==
    \/ DrawingSelection \/ DrawingColor \/ DrawingCoordinate \/ DrawingTypst
    \/ DrawingSettings \/ DrawingPdf
    \/ SelectionEsc \/ SelectionOther
    \/ ColorEsc \/ ColorEnter \/ ColorBackspace \/ ColorChar \/ ColorOther
    \/ CoordinateEsc \/ CoordinateBackspace \/ CoordinateChar
    \/ CoordinateOther
    \/ TypstEsc \/ TypstChar \/ TypstOther
    \/ SettingsClose \/ SettingsToggle \/ SettingsOther
    \/ PdfClose \/ PdfOther

SpecModes == InitModes /\ [][NextModes]_vars

\* coordinate gotos in the three systems from origins the 'o' key sets
InitGoto == InitApp /\ nkeys = MaxGotoKeys

NextGoto ==
    \/ DrawingMove \/ DrawingOrigin \/ DrawingSystem
    \/ DrawingCoordinate \/ CoordinateType \/ CoordinateEnter

SpecGoto == InitGoto /\ [][NextGoto]_vars

\* typing into the text buffer, a character at a time
InitText == InitApp /\ nkeys = MaxTextKeys

NextText ==
    \/ DrawingTypst \/ TypstKey \/ TypstBackspace \/ TypstEsc \/ TypstOther

SpecText == InitText /\ [][NextText]_vars

\* export and the viewer: glyphs and text placed, 's' with the wait for
\* typst as steps of its own, 'r' and the processes they start
InitExport == InitApp /\ nkeys = MaxExportKeys

NextExport ==
    \/ DrawingSelection \/ SelectionJump \/ DrawingStroke
    \/ DrawingTypst \/ TypstChar \/ TypstEnter
    \/ SaveWrite \/ CompilerExit \/ SaveReturn
    \/ DrawingPdf \/ PdfClose \/ ViewerExit

SpecExport == InitExport /\ [][NextExport]_vars

\* the three input buffers: the keys that enter their modes, fill them and
\* leave by Esc or Enter
InitBuffers == InitApp /\ nkeys = MaxBufferKeys

NextBuffers ==
    \/ DrawingColor \/ DrawingCoordinate \/ DrawingTypst
    \/ ColorEsc \/ ColorEnter \/ ColorBackspace \/ ColorChar
    \/ CoordinateEsc \/ CoordinateEnter \/ CoordinateBackspace
    \/ CoordinateChar
    \/ TypstEsc \/ TypstEnter \/ TypstBackspace \/ TypstChar

SpecBuffers == InitBuffers /\ [][NextBuffers]_vars

\* text placed and deleted on the canvas: the toggles, the cursor moved and
\* taken to the edges, a glyph placed, text typed, Enter and Backspace
InitPlace == InitApp /\ nkeys = MaxPlaceKeys

NextPlace ==
    \/ DrawingContinuous \/ DrawingSnap \/ DrawingMove \/ DrawingMoveHeld
    \/ DrawingPlace \/ DrawingTypst
    \/ TypstChar \/ TypstEnter \/ TypstBackspace

SpecPlace == InitPlace /\ [][NextPlace]_vars

\* the export of text: rows of text written, the cursor moved between them,
\* the drawing saved
InitParagraphs == InitApp /\ nkeys = MaxParagraphKeys

NextParagraphs == DrawingWrite \/ DrawingMove \/ DrawingSave

SpecParagraphs == InitParagraphs /\ [][NextParagraphs]_vars

\* the colour and coordinate buffers filled: text typed in runs up to the
\* caps and beyond, single characters, Backspace
InitCaps == InitApp /\ nkeys = MaxCapKeys

NextCaps ==
    \/ DrawingColor \/ DrawingCoordinate
    \/ ColorChar \/ ColorKey \/ ColorBackspace
    \/ CoordinateChar \/ CoordinateKey \/ CoordinateBackspace

SpecCaps == InitCaps /\ [][NextCaps]_vars

\* jumps with continuous_draw: the toggle, a jump by the keyboard grid or by
\* a typed coordinate, a move
InitJump == InitApp /\ nkeys = MaxJumpKeys

NextJump ==
    \/ DrawingContinuous \/ DrawingMove
    \/ DrawingSelection \/ SelectionJump
    \/ DrawingCoordinate \/ CoordinateType \/ CoordinateEnter

SpecJump == InitJump /\ [][NextJump]_vars

-----------------------------------------------------------------------------
(* draw_line_to_cursor, one iteration of its loop at a time *)

\* the halves a cursor coordinate may carry beyond its cell
Fractions == {0, Scale \div 2}

\* the glyphs SpecLine draws with
LineGlyphs == {<<"Point">>, <<"Cross">>}

\* move_cursor has set the remembered and the new cursor, continuous_draw
\* is on and draw_line_to_cursor is about to run on an empty canvas
InitLine ==
    /\ mode = "Drawing"
    /\ canvas = EmptyCanvas
    /\ \E ax \in 0..MaxCoord, ay \in 0..MaxCoord, f \in Fractions :
          /\ last_cursor_x = F(ax) + f
          /\ last_cursor_y = F(ay)
    /\ \E bx \in 0..MaxCoord, by \in 0..MaxCoord, f \in Fractions :
          /\ cursor_x = F(bx)
          /\ cursor_y = F(by) + f
    /\ scroll_y = 0
    /\ should_quit = FALSE
    /\ current_char \in LineGlyphs
    /\ current_color = AppNew.current_color
    /\ color_input = <<>>
    /\ continuous_draw = TRUE
    /\ coordinate_system = "Cartesian"
    /\ show_axes = TRUE
    /\ coordinate_input = <<>>
    /\ origin_x = AppNew.origin_x
    /\ origin_y = AppNew.origin_y
    /\ grid_snap = FALSE
    /\ text_buffer = <<>>
    /\ world = AppNew.world
    /\ event = NoEvent
    /\ nkeys = 0
    /\ line = NoLine

\* the lines before the loop
LineEnter ==
    /\ line.pc = "idle"
    /\ line' = [pc |-> "loop", path |-> <<>>]
               @@ LineLocals(last_cursor_x, last_cursor_y, cursor_x, cursor_y)
    /\ UNCHANGED <<appvars, event, nkeys>>

\* LineIterate with the exit test ahead of the write
LineIterate_TestFirst ==
    /\ line.pc = "loop"
    /\ canvas' = IF LineDone(line) THEN canvas
                 ELSE Plot(canvas, line.x, line.y, current_char)
    /\ line' = IF LineDone(line)
               THEN [line EXCEPT !.pc = "done",
                                 !.path = Append(@, <<line.x, line.y>>)]
               ELSE [LineStep(line) EXCEPT
                                 !.path = Append(@, <<line.x, line.y>>)]
    /\ UNCHANGED <<mode, cursor_x, cursor_y, scroll_y, should_quit,
                   current_char, current_color, color_input, continuous_draw,
                   last_cursor_x, last_cursor_y, coordinate_system,
                   show_axes, coordinate_input, origin_x, origin_y,
                   grid_snap, text_buffer, world, event, nkeys>>

\* one iteration: the write, the exit test, the step
LineIterate ==
    /\ line.pc = "loop"
    /\ canvas' = Plot(canvas, line.x, line.y, current_char)
    /\ line' = IF LineDone(line)
               THEN [line EXCEPT !.pc = "done",
                                 !.path = Append(@, <<line.x, line.y>>)]
               ELSE [LineStep(line) EXCEPT
                                 !.path = Append(@, <<line.x, line.y>>)]
    /\ UNCHANGED <<mode, cursor_x, cursor_y, scroll_y, should_quit,
                   current_char, current_color, color_input, continuous_draw,
                   last_cursor_x, last_cursor_y, coordinate_system,
                   show_axes, coordinate_input, origin_x, origin_y,
                   grid_snap, text_buffer, world, event, nkeys>>

NextLine == LineEnter \/ LineIterate

\* the loop runs on: the thread that entered draw_line_to_cursor executes
\* its next iteration
SpecLineRuns == InitLine /\ [][NextLine]_vars /\ WF_vars(NextLine)

SpecLine == InitLine /\ [][NextLine]_vars

-----------------------------------------------------------------------------
(* Properties *)

\* the canvas row of the cursor, as the code takes it: cursor_y as usize
CursorRow == AsUsize(cursor_y)

\* the last event was a run of one of the move keys h, j, k, l in Drawing
\* mode: every key of it called move_cursor
MoveEvent ==
    /\ event.n > 0
    /\ event.before.mode = "Drawing"
    /\ event.key.code = "Char"
    /\ event.key.ch \in MoveKeys

\* the cursor row lies in the window of canvas_height rows at scroll_y
RowInWindow == scroll_y <= CursorRow /\ CursorRow <= scroll_y + canvas_height - 1

\* the set of the elements of a sequence
Range(s) == {s[i] : i \in 1..Len(s)}

\* C1: the cursor is always on the virtual canvas, 0 <= x <= W - 1 and
\* 0 <= y <= V - 1, and a move key at an edge leaves it within a step and a
\* half of where it was: it is clamped, not wrapped to the other edge
C1_CursorOnCanvas ==
    /\ 0 <= cursor_x /\ cursor_x <= F(canvas_width - 1)
    /\ 0 <= cursor_y /\ cursor_y <= F(virtual_height - 1)
    /\ (MoveEvent /\ event.n = 1) =>
          /\ Abs(cursor_x - event.before.cursor_x) <= F(1) + Scale \div 2
          /\ Abs(cursor_y - event.before.cursor_y) <= F(1) + Scale \div 2

\* a 'j' on the last row has left the cursor on the last row
C1_Witness ==
    /\ MoveEvent
    /\ event.n = 1
    /\ event.key.ch = "j"
    /\ event.before.cursor_y = F(virtual_height - 1)
    /\ cursor_y = F(virtual_height - 1)

\* C2: after move_cursor the cursor row is in the window, scroll_y <= row
\* <= scroll_y + H - 1; a row that was above the window has become scroll_y
\* exactly, a row that was below it has become scroll_y + H - 1 exactly
C2_MoveScrollsToCursor ==
    MoveEvent =>
        /\ RowInWindow
        /\ (event.n = 1 /\ CursorRow < event.before.scroll_y) =>
              scroll_y = CursorRow
        /\ (event.n = 1 /\ CursorRow > event.before.scroll_y + canvas_height - 1) =>
              scroll_y = CursorRow - canvas_height + 1

\* one move key with the cursor left below the window by manual scrolling
C2_Witness ==
    /\ MoveEvent
    /\ event.n = 1
    /\ event.before.scroll_y > 0
    /\ CursorRow > event.before.scroll_y + canvas_height - 1
    /\ scroll_y = CursorRow - canvas_height + 1

\* C3: after every key that changes the cursor position the cursor row is
\* in the window scroll_y .. scroll_y + H - 1
C3_CursorChangeKeepsRowInWindow ==
    (event.n > 0 /\ (cursor_x # event.before.cursor_x
                     \/ cursor_y # event.before.cursor_y)) => RowInWindow

\* C4: 0 <= scroll_y <= V - H in every state
C4_ScrollInRange ==
    0 <= scroll_y /\ scroll_y <= virtual_height - canvas_height

\* a 'J' at the last offset and nothing has moved
C4_Witness ==
    /\ event.n = 1
    /\ event.before.mode = "Drawing"
    /\ event.key = Char("J")
    /\ event.before.scroll_y = virtual_height - canvas_height
    /\ scroll_y = virtual_height - canvas_height

\* C5: with grid_snap on, both cursor coordinates are whole numbers after
\* move_cursor, whatever they were before
C5_SnapGivesIntegers ==
    (MoveEvent /\ grid_snap) => IsInteger(cursor_x) /\ IsInteger(cursor_y)

\* a move with grid_snap on from a fractional column next to the right edge
C5_Witness ==
    /\ MoveEvent
    /\ grid_snap
    /\ ~IsInteger(event.before.cursor_x)
    /\ event.before.cursor_x > F(canvas_width - 2)
    /\ cursor_x = F(canvas_width - 1)

\* C6: Esc in every mode other than Drawing gives Drawing mode and leaves
\* the buffer of the mode it came from empty
C6_EscReturnsToDrawing ==
    (event.n > 0 /\ event.key = Esc /\ event.before.mode # "Drawing") =>
        /\ mode = "Drawing"
        /\ event.before.mode = "ColorSelection" => color_input = <<>>
        /\ event.before.mode = "CoordinateInput" => coordinate_input = <<>>
        /\ event.before.mode = "TypstInput" => text_buffer = <<>>

\* Esc in TypstInput mode with text typed
C6_Witness ==
    /\ event.n > 0
    /\ event.key = Esc
    /\ event.before.mode = "TypstInput"
    /\ event.before.text_buffer # <<>>
    /\ mode = "Drawing"
    /\ text_buffer = <<>>

\* the cells of the line drawn the other way, from the cursor back to the
\* remembered position
ReversePath ==
    LinePath(LineLocals(cursor_x, cursor_y, last_cursor_x, last_cursor_y))

\* the line runs along a row, a column or a diagonal
Straight ==
    \/ line.dx = 0
    \/ line.dy = 0
    \/ line.dx = -line.dy

\* C7 as stated: the line from A to B and the line from B to A mark the
\* same set of cells
C7_SameCellsBothWays ==
    line.pc = "done" => Range(line.path) = Range(ReversePath)

\* C7: the line from B to A is the line from A to B reflected through the
\* midpoint of A and B, cell by cell, and along a row, a column or a
\* diagonal the two mark the same set of cells
C7_ReverseIsReflection ==
    line.pc = "done" =>
        /\ Len(ReversePath) = Len(line.path)
        /\ \A i \in 1..Len(line.path) :
              ReversePath[i] = <<line.x0 + line.x1 - line.path[i][1],
                                 line.y0 + line.y1 - line.path[i][2]>>
        /\ ReversePath[1] = <<AsI32(cursor_x), AsI32(cursor_y)>>
        /\ Straight => Range(line.path) = Range(ReversePath)

\* the line from (0,0) to (2,1) passes (1,1), the line back passes (1,0)
C7_Witness ==
    /\ line.pc = "done"
    /\ line.path = << <<0, 0>>, <<1, 1>>, <<2, 1>> >>
    /\ ReversePath = << <<2, 1>>, <<1, 0>>, <<0, 0>> >>

\* C8: the drawn line includes both endpoints: the path starts at A and
\* ends at B, and both cells hold the current glyph
C8_EndpointsDrawn ==
    line.pc = "done" =>
        /\ line.path[1] = <<AsI32(last_cursor_x), AsI32(last_cursor_y)>>
        /\ line.path[Len(line.path)] = <<AsI32(cursor_x), AsI32(cursor_y)>>
        /\ Cell(canvas, AsI32(last_cursor_x), AsI32(last_cursor_y)) = current_char
        /\ Cell(canvas, AsI32(cursor_x), AsI32(cursor_y)) = current_char

\* a finished line of more than two cells between different endpoints
C8_Witness ==
    /\ line.pc = "done"
    /\ Len(line.path) > 2
    /\ AsI32(last_cursor_x) # AsI32(cursor_x)
    /\ AsI32(last_cursor_y) # AsI32(cursor_y)
    /\ Cell(canvas, AsI32(cursor_x), AsI32(cursor_y)) = current_char

\* C9: a line along a row leaves no gap: every cell of the row from A's
\* column to B's holds the current glyph
C9_RowHasNoGap ==
    (line.pc = "done" /\ line.y0 = line.y1) =>
        \A x \in Min(line.x0, line.x1)..Max(line.x0, line.x1) :
            Cell(canvas, x, line.y0) = current_char

\* the line from (0,0) to (3,0) has marked (1,0) and (2,0)
C9_Witness ==
    /\ line.pc = "done"
    /\ line.x0 = 0 /\ line.y0 = 0 /\ line.x1 = 3 /\ line.y1 = 0
    /\ Cell(canvas, 1, 0) = current_char
    /\ Cell(canvas, 2, 0) = current_char

\* the byte written by the hex digits at i and i + 1 of s
HexByte(s, i) == 16 * HexValue(s[i]) + HexValue(s[i + 1])

\* C10: Enter in ColorSelection mode with a buffer of six hex digits sets
\* current_color to the three bytes they spell ("1A2B3C" gives 26, 43, 60),
\* with any other buffer leaves current_color as it was, and in both cases
\* gives Drawing mode and an empty buffer
C10_ColorEnter ==
    (event.n = 1 /\ event.key = Enter /\ event.before.mode = "ColorSelection") =>
        LET buf == event.before.color_input
        IN  /\ mode = "Drawing"
            /\ color_input = <<>>
            /\ IF Len(buf) = 6 /\ \A i \in 1..6 : is_ascii_hexdigit(buf[i])
               THEN current_color =
                        <<HexByte(buf, 1), HexByte(buf, 3), HexByte(buf, 5)>>
               ELSE current_color = event.before.current_color
            /\ buf = <<"1", "A", "2", "B", "3", "C">> =>
                  current_color = <<26, 43, 60>>

\* Enter on the buffer "1A2B3C"
C10_Witness ==
    /\ event.n = 1
    /\ event.key = Enter
    /\ event.before.mode = "ColorSelection"
    /\ event.before.color_input = <<"1", "A", "2", "B", "3", "C">>
    /\ current_color = <<26, 43, 60>>

\* the last event was Enter in CoordinateInput mode
GotoEvent ==
    /\ event.n = 1
    /\ event.key = Enter
    /\ event.before.mode = "CoordinateInput"

\* the tokens of the buffer the goto read, and the first three as numbers
GotoParts == Split(event.before.coordinate_input)

GotoX == ParseF64(Trim(GotoParts[1]))

GotoY == ParseF64(Trim(GotoParts[2]))

GotoZ == ParseF64(Trim(GotoParts[3]))

\* the buffer was "x,y": two tokens, both numbers
GotoPair == Len(GotoParts) = 2 /\ GotoX.ok /\ GotoY.ok

\* C11: Enter on a well-formed "x,y" in the Cartesian system sets the
\* cursor to (clamp(origin_x + x, 0, W - 1), clamp(origin_y - y, 0, V - 1)),
\* so that rows from H to V - 1 can be reached
C11_GotoClampsToVirtualCanvas ==
    (GotoEvent /\ event.before.coordinate_system = "Cartesian" /\ GotoPair) =>
        /\ cursor_x = Clamp(event.before.origin_x + GotoX.v,
                            0, F(canvas_width - 1))
        /\ cursor_y = Clamp(event.before.origin_y - GotoY.v,
                            0, F(virtual_height - 1))

\* the buffer was malformed for the active system: a token count other than
\* two (Cartesian, Polar) or three (Cylindrical), or a token that is no number
GotoMalformed ==
    IF event.before.coordinate_system = "Cylindrical"
    THEN Len(GotoParts) # 3 \/ ~GotoX.ok \/ ~GotoY.ok \/ ~GotoZ.ok
    ELSE Len(GotoParts) # 2 \/ ~GotoX.ok \/ ~GotoY.ok

\* C12: Enter on a malformed or incomplete buffer, one with too many tokens
\* included, leaves cursor_x and cursor_y unchanged
C12_MalformedGotoKeepsCursor ==
    (GotoEvent /\ GotoMalformed) =>
        /\ cursor_x = event.before.cursor_x
        /\ cursor_y = event.before.cursor_y

\* the goto's target needs no clamping
GotoUnclamped ==
    /\ 0 <= event.before.origin_x + GotoX.v
    /\ event.before.origin_x + GotoX.v <= F(canvas_width - 1)
    /\ 0 <= event.before.origin_y - GotoY.v
    /\ event.before.origin_y - GotoY.v <= F(canvas_height - 1)

\* the two numbers get_current_coordinates reports, read back from its text
Reported ==
    LET text == get_current_coordinates(App)
        parts == Split(SubSeq(text, 2, Len(text) - 1))
    IN  <<ParseF64(Trim(parts[1])).v, ParseF64(Trim(parts[2])).v>>

\* a Cartesian goto on "x,y" that needed no clamping
RoundTrip ==
    /\ GotoEvent
    /\ event.before.coordinate_system = "Cartesian"
    /\ GotoPair
    /\ GotoUnclamped

\* C13 as stated: after a Cartesian goto that needs no clamping
\* get_current_coordinates reports exactly the typed (x, y)
C13_ReportsTypedExactly ==
    RoundTrip => Reported = <<GotoX.v, GotoY.v>>

\* C13: after a Cartesian goto that needs no clamping
\* get_current_coordinates reports the typed (x, y) rounded to one decimal:
\* within 0.05 of it, exactly it when x and y have at most one decimal, and
\* "3,4" is reported as "(3.0, 4.0)"
C13_ReportsTypedToOneDecimal ==
    RoundTrip =>
        /\ Abs(Reported[1] - GotoX.v) <= Scale \div 20
        /\ Abs(Reported[2] - GotoY.v) <= Scale \div 20
        /\ GotoX.v % 10 = 0 => Reported[1] = GotoX.v
        /\ GotoY.v % 10 = 0 => Reported[2] = GotoY.v
        /\ event.before.coordinate_input = <<"3", ",", "4">> =>
              get_current_coordinates(App) =
                  <<"(", "3", ".", "0", ",", " ", "4", ".", "0", ")">>

\* "1.25,2" from an origin the 'o' key has moved is reported as (1.2, 2.0)
C13_Witness ==
    /\ RoundTrip
    /\ event.before.origin_x # AppNew.origin_x
    /\ event.before.coordinate_input = <<"1", ".", "2", "5", ",", "2">>
    /\ get_current_coordinates(App) =
           <<"(", "1", ".", "2", ",", " ", "2", ".", "0", ")">>

\* the last event was one character key in TypstInput mode
TypedEvent ==
    /\ event.n = 1
    /\ event.key.code = "Char"
    /\ event.before.mode = "TypstInput"

\* the openers and their closers
Pairs ==
    {<<"(", ")">>, <<"[", "]">>, <<"{", "}">>, <<"$", "$">>, <<"\"", "\"">>,
     <<"'", "'">>}

\* C14: in TypstInput mode an opener ( [ { $ " ' appends itself and its
\* closer ) ] } $ " ', two characters ("(" on an empty buffer gives "()"),
\* and any other non-control character appends itself alone
C14_OpenersArePaired ==
    (TypedEvent /\ event.key.ch \notin ControlChars) =>
        /\ \A pair \in Pairs :
              event.key.ch = pair[1] =>
                  text_buffer = event.before.text_buffer \o pair
        /\ (\A pair \in Pairs : event.key.ch # pair[1]) =>
              text_buffer = Append(event.before.text_buffer, event.key.ch)
        /\ mode = "TypstInput"

\* a single quote typed after "()" has given "()''"
C14_Witness ==
    /\ TypedEvent
    /\ event.key.ch = "'"
    /\ event.before.text_buffer = <<"(", ")">>
    /\ text_buffer = <<"(", ")", "'", "'">>

\* the last event was 's' in Drawing mode
SaveEvent ==
    /\ event.n = 1
    /\ event.key = Char("s")
    /\ event.before.mode = "Drawing"

\* 's' has created drawing.typ from a canvas without a Text glyph
ExportedPure ==
    /\ SaveEvent
    /\ event.before.world.env.create
    /\ \A c \in DOMAIN canvas : canvas[c][1] # "Text"

\* the display character of each glyph kind but Text
GlyphChar ==
    [kind \in {"Point", "Horizontal", "Vertical", "Cross", "DiagRight",
               "DiagLeft"} |->
        CASE kind = "Point" -> "BULLET" [] kind = "Horizontal" -> "-"
          [] kind = "Vertical" -> "|" [] kind = "Cross" -> "+"
          [] kind = "DiagRight" -> "/" [] kind = "DiagLeft" -> "\\"]

\* C15: without a Text glyph on the canvas the export is, after the header,
\* a code fence holding one line per canvas row in row order: the row's
\* cells as display characters, an empty cell as a space, the trailing
\* spaces removed; Horizontal at (0,0) and Vertical at (1,0) alone give the
\* first row line "-|"
C15_PureGlyphExport ==
    ExportedPure =>
        /\ Len(world.file) = Len(Header) + virtual_height + 2
        /\ world.file[Len(Header) + 1] = Fence
        /\ world.file[Len(world.file)] = Fence
        /\ \A y \in 0..(virtual_height - 1) :
              LET text == world.file[Len(Header) + 2 + y]
                  cols == {x \in 0..(canvas_width - 1) :
                              <<x, y>> \in DOMAIN canvas}
              IN  /\ \A x \in cols : x < Len(text)
                  /\ Len(text) > 0 => Len(text) - 1 \in cols
                  /\ \A x \in 0..(Len(text) - 1) :
                        text[x + 1] = IF x \in cols
                                      THEN GlyphChar[canvas[<<x, y>>][1]]
                                      ELSE " "
        /\ (/\ DOMAIN canvas = {<<0, 0>>, <<1, 0>>}
            /\ canvas[<<0, 0>>] = <<"Horizontal">>
            /\ canvas[<<1, 0>>] = <<"Vertical">>)
              => world.file[Len(Header) + 2] = <<"-", "|">>

\* the export of Horizontal at (0,0) and Vertical at (1,0)
C15_Witness ==
    /\ ExportedPure
    /\ DOMAIN canvas = {<<0, 0>>, <<1, 0>>}
    /\ canvas[<<0, 0>>] = <<"Horizontal">>
    /\ canvas[<<1, 0>>] = <<"Vertical">>
    /\ world.file[Len(Header) + 2] = <<"-", "|">>
    /\ world.file[Len(Header) + 3] = <<>>

\* C16: should_quit is true only once 'q' has been handled in Drawing
\* mode: no other key of any mode sets it, a coordinate or colour that does
\* not parse does not, a failed File::create, typst or viewer does not,
\* and 'q' in a mode other than Drawing does not
C16_QuitOnlyByQInDrawing ==
    /\ should_quit =>
          /\ event.n = 1
          /\ event.key = Char("q")
          /\ event.before.mode = "Drawing"
          /\ ~event.before.should_quit
    /\ (event.n > 0 /\ event.before.mode # "Drawing") => ~should_quit
    /\ (event.n > 0 /\ event.key # Char("q")) => ~should_quit

\* 'q' has quit the editor after an 's' that could not create the file
C16_Witness ==
    /\ should_quit
    /\ event.key = Char("q")
    /\ event.before.mode = "Drawing"
    /\ ~event.before.world.env.create

\* C17: export and PDF open are fire-and-forget: whenever the typst
\* process or a viewer is running, the handler that started it has
\* returned and the editor is ready for the next key event
C17_NeverWaitsForProcess ==
    (world.compiler = "running" \/ world.viewers > 0) => world.pc = "ready"

\* C18: a buffer is non-empty only in its own mode: color_input is empty
\* outside ColorSelection, coordinate_input outside CoordinateInput and
\* text_buffer outside TypstInput
C18_BuffersOnlyInTheirMode ==
    /\ mode # "ColorSelection" => color_input = <<>>
    /\ mode # "CoordinateInput" => coordinate_input = <<>>
    /\ mode # "TypstInput" => text_buffer = <<>>

\* Enter has left CoordinateInput mode with a buffer typed
C18_Witness ==
    /\ event.key = Enter
    /\ event.before.mode = "CoordinateInput"
    /\ event.before.coordinate_input # <<>>
    /\ mode = "Drawing"
    /\ coordinate_input = <<>>

\* the last event was one key in Selection mode
SelectionEvent == event.n = 1 /\ event.before.mode = "Selection"

\* the thirty characters of the keyboard-grid lookup
Lookup ==
    {"q", "w", "e", "r", "t", "y", "u", "i", "o", "p",
     "a", "s", "d", "f", "g", "h", "j", "k", "l", ";",
     "z", "x", "c", "v", "b", "n", "m", ",", ".", "/"}

\* where the lookup sends the keys the model presses: column, row
JumpTarget ==
    [ch \in {"q", "p", "z", "/", "g"} |->
        CASE ch = "q" -> <<0, 0>> [] ch = "p" -> <<72, 0>>
          [] ch = "z" -> <<0, 26>> [] ch = "/" -> <<72, 26>>
          [] ch = "g" -> <<32, 13>>]

\* C19: in Selection mode a character of the lookup sets the cursor to
\* (min(col, W - 1), min(row, H - 1)) of its position and the mode to
\* Drawing; a key that is neither Esc nor in the lookup leaves the whole
\* state as it was, the mode included
C19_SelectionJumpOrIgnore ==
    SelectionEvent =>
        /\ (event.key.code = "Char" /\ event.key.ch \in DOMAIN JumpTarget) =>
              /\ cursor_x = F(Min(JumpTarget[event.key.ch][1],
                                  canvas_width - 1))
              /\ cursor_y = F(Min(JumpTarget[event.key.ch][2],
                                  canvas_height - 1))
              /\ mode = "Drawing"
        /\ (event.key.code = "Char" /\ event.key.ch \in Lookup) =>
              mode = "Drawing"
        /\ (event.key # Esc
            /\ ~(event.key.code = "Char" /\ event.key.ch \in Lookup)) =>
              /\ App = event.before
              /\ mode = "Selection"

\* a digit in Selection mode, with the window scrolled, has changed nothing
C19_Witness ==
    /\ SelectionEvent
    /\ event.key = Char("1")
    /\ event.before.scroll_y > 0
    /\ App = event.before
    /\ mode = "Selection"

\* the last event was one key
KeyEvent == event.n = 1

\* the last key took the editor into PdfRender mode
EnteredPdfRender == event.before.mode # "PdfRender" /\ mode = "PdfRender"

\* C20: every key adds one open_pdf call when it takes the editor into
\* PdfRender mode and none otherwise, so that over any key sequence the calls
\* number the transitions into PdfRender; in PdfRender mode no key calls it,
\* and 'r' or Esc change the mode to Drawing and nothing else
C20_ViewerOpenedOncePerEntry ==
    KeyEvent =>
        /\ world.opened = event.before.world.opened
                            + (IF EnteredPdfRender THEN 1 ELSE 0)
        /\ EnteredPdfRender => event.before.mode = "Drawing"
        /\ event.before.mode = "PdfRender" =>
              /\ world = event.before.world
              /\ event.key \in {Esc, Char("r")} =>
                    App = [event.before EXCEPT !.mode = "Drawing"]

\* the viewer was opened, closed with a key, and has just been opened a
\* second time
C20_Witness ==
    /\ KeyEvent
    /\ event.key = Char("r")
    /\ EnteredPdfRender
    /\ event.before.world.opened = 1
    /\ world.opened = 2

\* the last event was one key in TypstInput mode
TypstEvent == event.n = 1 /\ event.before.mode = "TypstInput"

\* the cursor cell before the last event
CursorColBefore == AsUsize(event.before.cursor_x)

CursorRowBefore == AsUsize(event.before.cursor_y)

\* C21: after Enter in TypstInput mode every buffered character i whose
\* column, cursor column + i, is left of the last column is on the canvas as
\* a Text glyph at that column of the cursor row, whatever the toggles are
C21_EnterPlacesBuffer ==
    (TypstEvent /\ event.key = Enter) =>
        \A i \in 1..Len(event.before.text_buffer) :
            CursorColBefore + (i - 1) < canvas_width - 1 =>
                Cell(canvas, CursorColBefore + (i - 1), CursorRowBefore)
                    = <<"Text", event.before.text_buffer[i]>>

\* the cells either canvas of the last event holds
CellsTouched == DOMAIN canvas \cup DOMAIN event.before.canvas

\* C22: Backspace in TypstInput mode on a buffer with text removes the last
\* character of the buffer and changes nothing else; on an empty buffer it
\* moves the cursor one cell to the left, leaves the cell of the new cursor
\* empty and changes no other cell, whatever the toggles are
C22_BackspaceEffect ==
    (TypstEvent /\ event.key = Backspace) =>
        IF event.before.text_buffer # <<>>
        THEN App = [event.before EXCEPT !.text_buffer = Pop(@)]
        ELSE /\ AsUsize(cursor_x) = CursorColBefore - 1
             /\ AsUsize(cursor_y) = CursorRowBefore
             /\ Cell(canvas, AsUsize(cursor_x), AsUsize(cursor_y)) = None
             /\ \A c \in CellsTouched :
                    c # <<AsUsize(cursor_x), AsUsize(cursor_y)>> =>
                        Cell(canvas, c[1], c[2])
                            = Cell(event.before.canvas, c[1], c[2])

\* 's' has created drawing.typ from a canvas that holds Text glyphs
ExportedMixed ==
    /\ SaveEvent
    /\ event.before.world.env.create
    /\ \E c \in DOMAIN canvas : canvas[c][1] = "Text"

\* the lines of drawing.typ after the header
Body == SubSeq(world.file, Len(Header) + 1, Len(world.file))

\* the rows that hold a cell, and the columns of a row that do
FilledRows == {c[2] : c \in DOMAIN canvas}

FilledCols(y) == {x \in 0..(canvas_width - 1) : <<x, y>> \in DOMAIN canvas}

\* every cell of the canvas holds a character of text other than a space
OnlyWords ==
    \A c \in DOMAIN canvas : canvas[c][1] = "Text" /\ canvas[c][2] # " "

\* the words of a row: from its first cell to its last, a gap as a space
RowWords(y) ==
    LET lo == CHOOSE x \in FilledCols(y) : \A z \in FilledCols(y) : x <= z
        hi == CHOOSE x \in FilledCols(y) : \A z \in FilledCols(y) : z <= x
    IN  [i \in 1..(hi - lo + 1) |->
            IF <<lo + i - 1, y>> \in DOMAIN canvas
            THEN canvas[<<lo + i - 1, y>>][2] ELSE " "]

\* the line ends with the text
EndsWith(text, tail) ==
    /\ Len(tail) <= Len(text)
    /\ SubSeq(text, Len(text) - Len(tail) + 1, Len(text)) = tail

\* C23: in the export of a canvas with text, an empty row between two rows
\* of text is a paragraph break: the lines written are as many as the
\* groups of adjacent rows of text, the text of two rows with an empty row
\* between them is on two lines, and that of two adjacent rows is one line
\* with one space between them
C23_EmptyRowBreaksParagraph ==
    (ExportedMixed /\ OnlyWords) =>
        /\ Cardinality({i \in 1..Len(Body) : Body[i] # <<>>})
              = Cardinality({y \in FilledRows : y - 1 \notin FilledRows})
        /\ \A y \in FilledRows :
              (y + 1 \notin FilledRows /\ y + 2 \in FilledRows) =>
                  \A i \in 1..Len(Body) :
                      ~EndsWith(Body[i],
                                RowWords(y) \o <<" ">> \o RowWords(y + 2))
        /\ \A y \in FilledRows :
              (FilledRows = {y, y + 1}
               /\ ~Contains(RowWords(y) \o RowWords(y + 1), "$")
               /\ ~Contains(RowWords(y) \o RowWords(y + 1), "=")) =>
                  Body = << RowWords(y) \o <<" ">> \o RowWords(y + 1) >>

\* a paragraph as the rule of the three classes writes it, the delimiter of
\* inline math being '$'
Classified(p) ==
    IF Contains(p, "$") THEN p
    ELSE IF Count(p, "=") = 1
            /\ \E op \in {"+", "-", "*", "/"} : Contains(p, op)
    THEN <<"$">> \o p \o <<"$">>
    ELSE p

\* every cell of row y holds a space of text
BlankText(y) ==
    /\ FilledCols(y) # {}
    /\ \A x \in FilledCols(y) : canvas[<<x, y>>] = <<"Text", " ">>

\* row y holds text that neither starts nor ends with a space
WordsRow(y) ==
    /\ FilledCols(y) # {}
    /\ \A x \in FilledCols(y) : canvas[<<x, y>>][1] = "Text"
    /\ RowWords(y)[1] # " "
    /\ RowWords(y)[Len(RowWords(y))] # " "

\* C24: every paragraph of the export is written by one rule, the final one
\* included: with a '$' in it as it is; else with exactly one '=' and one of
\* + - * / between a delimiter before and a delimiter after it; else as it
\* is.  One row of text is the final paragraph; two rows of text around a
\* row of spaces are a paragraph ended by the break and the final one
C24_ParagraphClasses ==
    ExportedMixed =>
        \A y \in FilledRows :
            /\ (FilledRows = {y} /\ WordsRow(y)) =>
                  Body = << Classified(RowWords(y)) >>
            /\ (/\ FilledRows = {y, y + 1, y + 2}
                /\ WordsRow(y) /\ BlankText(y + 1) /\ WordsRow(y + 2)) =>
                  Body = << Classified(RowWords(y)), <<>>,
                            Classified(RowWords(y + 2)) >>

\* the last event was one scroll key in Drawing mode
ScrollEvent ==
    /\ event.n = 1
    /\ event.before.mode = "Drawing"
    /\ event.key \in {Char("J"), Char("K")}

\* C25: 'J' and 'K' in Drawing mode change scroll_y alone, by 3 down or up
\* and kept within 0 .. V - H: the cursor, the remembered previous position,
\* the canvas, the mode and the settings stay, the cursor where it is even
\* outside the window
C25_ScrollKeysMoveWindowOnly ==
    ScrollEvent =>
        /\ event.key = Char("J") =>
              App = [event.before EXCEPT
                        !.scroll_y = Min(@ + 3, virtual_height - canvas_height)]
        /\ event.key = Char("K") =>
              App = [event.before EXCEPT !.scroll_y = Max(@ - 3, 0)]

\* a 'K' has moved the window up by 3 and the cursor row is above it
C25_Witness ==
    /\ ScrollEvent
    /\ event.key = Char("K")
    /\ scroll_y = event.before.scroll_y - 3
    /\ CursorRow < scroll_y
    /\ cursor_y = event.before.cursor_y

\* the alphabets of the two buffers
UpperHexDigits ==
    {"0", "1", "2", "3", "4", "5", "6", "7", "8", "9",
     "A", "B", "C", "D", "E", "F"}

CoordinateAlphabet ==
    {"0", "1", "2", "3", "4", "5", "6", "7", "8", "9", ".", ",", " ", "-"}

\* the upper-case form of the hex digits the model types one at a time
UpperOf == [ch \in {"f", "0"} |-> IF ch = "f" THEN "F" ELSE "0"]

\* the last event was one character typed in the mode
CharEventIn(m) ==
    /\ event.n = 1
    /\ event.before.mode = m
    /\ event.key.code = "Char"

\* C26: color_input holds at most 6 characters, all upper-case hex digits,
\* and coordinate_input at most 20, all of digits, '.', ',', space and '-';
\* a character within cap and alphabet is appended (a hex digit in upper
\* case), one that is outside the alphabet or meets a full buffer changes
\* nothing
C26_BufferCapsAndAlphabets ==
    /\ Len(color_input) <= 6
    /\ \A i \in 1..Len(color_input) : color_input[i] \in UpperHexDigits
    /\ Len(coordinate_input) <= 20
    /\ \A i \in 1..Len(coordinate_input) :
          coordinate_input[i] \in CoordinateAlphabet
    /\ CharEventIn("ColorSelection") =>
          IF event.key.ch \in DOMAIN UpperOf
             /\ Len(event.before.color_input) < 6
          THEN App = [event.before EXCEPT
                         !.color_input = Append(@, UpperOf[event.key.ch])]
          ELSE App = event.before
    /\ CharEventIn("CoordinateInput") =>
          IF event.key.ch \in CoordinateAlphabet
             /\ Len(event.before.coordinate_input) < 20
          THEN App = [event.before EXCEPT
                         !.coordinate_input = Append(@, event.key.ch)]
          ELSE App = event.before

\* a digit typed into a coordinate buffer of 20 characters has changed
\* nothing
C26_Witness ==
    /\ CharEventIn("CoordinateInput")
    /\ event.key = Char("7")
    /\ Len(event.before.coordinate_input) = 20
    /\ coordinate_input = event.before.coordinate_input

\* the longer side of the box the endpoints span
LongSide == Max(Abs(line.x1 - line.x0), Abs(line.y1 - line.y0))

\* the cell of the loop lies in the box the endpoints span
InsideBox ==
    /\ Min(line.x0, line.x1) <= line.x /\ line.x <= Max(line.x0, line.x1)
    /\ Min(line.y0, line.y1) <= line.y /\ line.y <= Max(line.y0, line.y1)

\* while the loop runs it stays in the box and has visited at most LongSide
\* cells before the one it is at; once left it is at (x1, y1) and has
\* visited at most LongSide + 1 cells, no cell twice
LineBounded ==
    /\ line.pc = "loop" => InsideBox /\ Len(line.path) <= LongSide
    /\ line.pc = "done" =>
          /\ line.x = line.x1 /\ line.y = line.y1
          /\ line.path[Len(line.path)] = <<line.x1, line.y1>>
          /\ Len(line.path) <= LongSide + 1
          /\ \A i, j \in 1..Len(line.path) :
                line.path[i] = line.path[j] => i = j
          /\ \A i \in 1..(Len(line.path) - 1) :
                line.path[i] # <<line.x1, line.y1>>

\* C27: the loop of draw_line_to_cursor ends for every pair of endpoints,
\* in every octant, for A = B, along rows, columns and diagonals: it reaches
\* (x1, y1), never steps past it and visits at most
\* max(|x1 - x0|, |y1 - y0|) + 1 cells
C27_LineLoopEnds == [](LineBounded) /\ <>(line.pc = "done")

\* a line up and to the left, steeper than a diagonal, has ended on its
\* last cell after LongSide + 1 cells
C27_Witness ==
    /\ line.pc = "done"
    /\ line.x1 < line.x0
    /\ line.y1 < line.y0
    /\ line.x0 - line.x1 < line.y0 - line.y1
    /\ line.x = line.x1 /\ line.y = line.y1
    /\ Len(line.path) = LongSide + 1

\* the last event was a jump: a character in Selection mode or Enter in
\* CoordinateInput mode
JumpEvent ==
    /\ event.n = 1
    /\ \/ event.before.mode = "Selection" /\ event.key.code = "Char"
       \/ event.before.mode = "CoordinateInput" /\ event.key = Enter

\* the cell of the cursor before and after the last event
CellBefore == <<AsI32(event.before.cursor_x), AsI32(event.before.cursor_y)>>

CellAfter == <<AsI32(cursor_x), AsI32(cursor_y)>>

\* the cells whose content the last event changed
CellsChanged ==
    {c \in CellsTouched :
        Cell(canvas, c[1], c[2]) # Cell(event.before.canvas, c[1], c[2])}

\* C28: a jump never draws, whatever continuous_draw is: a Selection
\* character and Enter in CoordinateInput mode leave the canvas as it was;
\* and a move key takes the position it finds the cursor at as the start
\* of its line, so that after a jump it draws from the cell jumped to, the
\* one step to the new cell, and nowhere else
C28_JumpsNeverDraw ==
    /\ JumpEvent => canvas = event.before.canvas
    /\ (MoveEvent /\ event.n = 1) =>
          /\ last_cursor_x = event.before.cursor_x
          /\ last_cursor_y = event.before.cursor_y
          /\ CellsChanged \subseteq {CellBefore, CellAfter}
          /\ continuous_draw =>
                /\ Cell(canvas, CellBefore[1], CellBefore[2]) = current_char
                /\ Cell(canvas, CellAfter[1], CellAfter[2]) = current_char
          /\ ~continuous_draw => canvas = event.before.canvas

\* with continuous_draw on, the first move after a jump of more than a
\* cell has drawn the cell jumped to and the cell next to it, on a canvas
\* the jump had left empty
C28_Witness ==
    /\ MoveEvent /\ event.n = 1
    /\ continuous_draw
    /\ Abs(event.before.last_cursor_x - event.before.cursor_x) > F(1)
    /\ event.before.canvas = EmptyCanvas
    /\ CellBefore # CellAfter
    /\ DOMAIN canvas = {CellBefore, CellAfter}

=============================================================================
